---------------------------- MODULE Spec2Model ----------------------------
(***************************************************************************)
(* Volume monitoring for payment-screening categories (app, message_type). *)
(*                                                                         *)
(* The module models                                                       *)
(*   - weekly_monitoring.py : calculate_dynamic_threshold,                 *)
(*     detect_weekly_alerts, generate_alert_report, save_alerts, main;     *)
(*   - volume_analysis.py / volume_analysis_v2.py : the threshold          *)
(*     calculators;                                                        *)
(*   - frequency_detector.py : analyze_occurrence_pattern.                 *)
(*                                                                         *)
(* Numbers.  numpy computes in binary floating point; the model computes   *)
(* in exact real arithmetic.  Every quantity the code derives from a       *)
(* sample is of the form (a - k*sqrt(v)) / d with integers a, k, v, d      *)
(* (d > 0, v >= 0), and is kept as the record [a, k, v, d].  A rational    *)
(* has k = 0.  Comparisons are decided exactly by squaring.                *)
(***************************************************************************)
EXTENDS Integers, Sequences, FiniteSets, TLC

VARIABLES
    \* ---- weekly_monitoring.main ----
    df,            \* the loaded observation table, a sequence of rows
    check_date,    \* --date
    sensitivity,   \* --sensitivity
    pc,            \* position of main
    alerts_df,     \* result of detect_weekly_alerts
    outcomes,      \* per category: the branch the loop body of detect_weekly_alerts took
    report,        \* result of generate_alert_report
    files,         \* the three output files of the run
    exit_status,   \* status the process ends with
    \* ---- a second run of detect_weekly_alerts on a varied table ----
    df_alt,
    alerts_alt,
    \* ---- the analysis script volume_analysis.py on the same table ----
    threshold_df,
    analysis_alerts,
    \* ---- the threshold calculators on one sample ----
    volumes,
    regularity,
    thresholds,
    \* ---- frequency_detector.analyze_occurrence_pattern ----
    dates,
    pattern,
    \* ---- frequency_detector.detect_frequency_advanced ----
    group_volumes, \* the volume column of the group, one value per date
    result,        \* the returned dict, or the exception raised
    \* ---- trend_analyzer.analyze_trends_multi_window ----
    group_df,      \* rows [week_start_date, volume] of one category
    reference_date, \* <<>> for None, <<d>> for the date d
    trends,        \* window name -> metrics
    \* ---- trend_analyzer.compare_recent_to_historical ----
    recent_weeks,
    comparison,    \* the returned dict
    \* ---- volume_analysis_v2.main ----
    freq_df,       \* one frequency profile per category
    trend_results, \* trends of the top categories
    trend_summary  \* rows of trend_analysis.csv

vars == <<df, check_date, sensitivity, pc, alerts_df, outcomes, report, files,
          exit_status, df_alt, alerts_alt, threshold_df, analysis_alerts,
          volumes, regularity, thresholds, dates, pattern, group_volumes,
          result, group_df, reference_date, trends, recent_weeks, comparison,
          freq_df, trend_results, trend_summary>>

monVars == <<df, check_date, sensitivity, alerts_df, outcomes, report, files,
             exit_status>>
altVars == <<df_alt, alerts_alt, threshold_df, analysis_alerts>>
thrVars == <<volumes, regularity, thresholds>>
freqVars == <<dates, pattern, group_volumes, result>>
trendVars == <<group_df, reference_date, trends>>
cmpVars == <<recent_weeks, comparison>>
runVars == <<freq_df, trend_results, trend_summary>>

-----------------------------------------------------------------------------
(* Bounds of the model                                                     *)

\* Weeks are numbered 1..MaxWeek; week_start_date of a row is its week number.
MaxWeek == 9

\* Counts a row may carry.
Volumes == {0, 3, 5, 7, 10}

Weeks == 1..MaxWeek

-----------------------------------------------------------------------------
(* Exact arithmetic                                                        *)

Abs(x) == IF x < 0 THEN -x ELSE x

RECURSIVE GCDNat(_, _)
GCDNat(x, y) == IF y = 0 THEN x ELSE GCDNat(y, x % y)

GCD(x, y) == GCDNat(Abs(x), Abs(y))

\* The rational a/d (d > 0), in lowest terms.
Rat(a, d) ==
    LET g == GCD(a, d)
    IN  IF g = 0 THEN [a |-> 0, k |-> 0, v |-> 0, d |-> 1]
        ELSE [a |-> a \div g, k |-> 0, v |-> 0, d |-> d \div g]

Num(n) == Rat(n, 1)

\* (a - k*sqrt(v)) / d
Surd(a, k, v, d) ==
    IF k = 0 \/ v = 0 THEN Rat(a, d)
    ELSE LET g == GCD(GCD(a, k), d)
         IN  [a |-> a \div g, k |-> k \div g, v |-> v, d |-> d \div g]

\* A - K*sqrt(v) < 0
SurdNegative(A, K, v) ==
    LET g  == GCD(A, K)
        A1 == IF g = 0 THEN 0 ELSE A \div g
        K1 == IF g = 0 THEN 0 ELSE K \div g
    IN  IF K1 >= 0
        THEN A1 < 0 \/ A1 * A1 < K1 * K1 * v
        ELSE A1 < 0 /\ A1 * A1 > K1 * K1 * v

\* x < y, for x and y that are rational or share the same radicand.
Lt(x, y) ==
    LET g  == GCD(x.d, y.d)
        xd == x.d \div g
        yd == y.d \div g
    IN  SurdNegative(x.a * yd - y.a * xd,
                     x.k * yd - y.k * xd,
                     IF x.k # 0 THEN x.v ELSE y.v)

Le(x, y) == ~Lt(y, x)
Eq(x, y) == ~Lt(x, y) /\ ~Lt(y, x)

\* Python's max(x, y): the first argument unless the second is strictly greater.
Max2(x, y) == IF Lt(x, y) THEN y ELSE x
Max3(x, y, z) == Max2(Max2(x, y), z)

RatSub(x, y) == Rat(x.a * y.d - y.a * x.d, x.d * y.d)
RatMul(x, y) == Rat(x.a * y.a, x.d * y.d)

RECURSIVE Sum(_)
Sum(s) == IF s = <<>> THEN 0 ELSE Head(s) + Sum(Tail(s))

RECURSIVE SumSq(_)
SumSq(s) == IF s = <<>> THEN 0 ELSE Head(s) * Head(s) + SumSq(Tail(s))

RECURSIVE Insert(_, _)
Insert(x, s) ==
    IF s = <<>> THEN <<x>>
    ELSE IF x <= Head(s) THEN <<x>> \o s
    ELSE <<Head(s)>> \o Insert(x, Tail(s))

\* Ascending order of a sequence of integers.
RECURSIVE Sorted(_)
Sorted(s) == IF s = <<>> THEN <<>> ELSE Insert(Head(s), Sorted(Tail(s)))

\* np.mean
Mean(s) == Rat(Sum(s), Len(s))

\* n^2 times the population variance: n*sum(x^2) - sum(x)^2
VarN2(s) == Len(s) * SumSq(s) - Sum(s) * Sum(s)

\* np.std (population standard deviation): sqrt(VarN2)/n
Std(s) == Surd(0, -1, VarN2(s), Len(s))

\* np.percentile(s, q), linear interpolation between the closest ranks.
Percentile(s, q) ==
    LET o   == Sorted(s)
        pos == (Len(o) - 1) * q
        lo  == pos \div 100
        rem == pos % 100
    IN  IF rem = 0 THEN Num(o[lo + 1])
        ELSE Rat(100 * o[lo + 1] + rem * (o[lo + 2] - o[lo + 1]), 100)

-----------------------------------------------------------------------------
(* weekly_monitoring.py: configuration                                     *)

\* z_score is kept as the fraction z_num/z_den (1.5, 2.0, 2.5).
SENSITIVITY_CONFIGS ==
    [high   |-> [z_num |-> 3, z_den |-> 2, percentile |-> 10, min_weeks |-> 4],
     medium |-> [z_num |-> 2, z_den |-> 1, percentile |-> 5,  min_weeks |-> 6],
     low    |-> [z_num |-> 5, z_den |-> 2, percentile |-> 2,  min_weeks |-> 8]]

Sensitivities == {"high", "medium", "low"}

-----------------------------------------------------------------------------
(* weekly_monitoring.py: calculate_dynamic_threshold                       *)

\* max(0, mean_vol - z * std_vol), z = zn/zd
ZThreshold(vals, zn, zd) ==
    Max2(Num(0), Surd(Sum(vals) * zd, zn, VarN2(vals), Len(vals) * zd))

\* max(0, q1 - 1.5 * (q3 - q1))
IqrThreshold(vals) ==
    LET q1  == Percentile(vals, 25)
        q3  == Percentile(vals, 75)
        iqr == RatSub(q3, q1)
    IN  Max2(Num(0), RatSub(q1, RatMul(Rat(3, 2), iqr)))

\* Mutant: the least of the three estimators.
FinalThreshold_Least(z, p, i) ==
    LET m == IF Lt(p, z) THEN p ELSE z
    IN  IF Lt(i, m) THEN i ELSE m

\* Use the maximum (most conservative) threshold
FinalThreshold(z, p, i) == Max3(z, p, i)

calculate_dynamic_threshold(vals, sens) ==
    LET config == SENSITIVITY_CONFIGS[sens]
        z_threshold == ZThreshold(vals, config.z_num, config.z_den)
        percentile_threshold == Percentile(vals, config.percentile)
        iqr_threshold == IqrThreshold(vals)
    IN  [threshold |-> FinalThreshold(z_threshold, percentile_threshold, iqr_threshold),
         mean      |-> Mean(vals),
         std       |-> Std(vals),
         methods   |-> [z_score    |-> z_threshold,
                        percentile |-> percentile_threshold,
                        iqr        |-> iqr_threshold]]

-----------------------------------------------------------------------------
(* weekly_monitoring.py: detect_weekly_alerts                              *)

\* A row of the table: [app, message_type, week_start_date, volume].
Row(key, w, vol) ==
    [app |-> key[1], message_type |-> key[2], week_start_date |-> w, volume |-> vol]

Key(r) == <<r.app, r.message_type>>

KeyLess(k1, k2) == k1[1] < k2[1] \/ (k1[1] = k2[1] /\ k1[2] < k2[2])

\* Mutant: the keys from the largest to the least.
RECURSIVE SortKeys_Descending(_)
SortKeys_Descending(S) ==
    IF S = {} THEN <<>>
    ELSE LET m == CHOOSE k \in S : \A o \in S : o = k \/ KeyLess(o, k)
         IN  <<m>> \o SortKeys_Descending(S \ {m})

RECURSIVE SortKeys(_)
SortKeys(S) ==
    IF S = {} THEN <<>>
    ELSE LET m == CHOOSE k \in S : \A o \in S : o = k \/ KeyLess(k, o)
         IN  <<m>> \o SortKeys(S \ {m})

\* df.groupby(['app', 'message_type']): the keys in ascending order.
GroupKeys(d) == SortKeys({Key(d[i]) : i \in DOMAIN d})

\* The rows of one group, in the order of the table.
Group(d, key) ==
    LET Test(r) == Key(r) = key
    IN  SelectSeq(d, Test)

\* df[df['week_start_date'] == check_date]
CurrentWeekData(d, cd) ==
    LET Test(r) == r.week_start_date = cd
    IN  SelectSeq(d, Test)

\* Mutant: the checked week counted with the history.
HistoricalData_Inclusive(group, cd) ==
    LET Test(r) == r.week_start_date <= cd
    IN  SelectSeq(group, Test)

\* group[group['week_start_date'] < check_date]
HistoricalData(group, cd) ==
    LET Test(r) == r.week_start_date < cd
    IN  SelectSeq(group, Test)

VolumeColumn(rows) == [i \in DOMAIN rows |-> rows[i].volume]

\* rows.tail(n)
TailRows(rows, n) ==
    IF Len(rows) <= n THEN rows ELSE SubSeq(rows, Len(rows) - n + 1, Len(rows))

\* the drop taken as a share of the current volume, in place of the mean
DropPct_OfCurrent(mean, current_vol) ==
    IF current_vol = 0
    THEN [a |-> 1, k |-> 0, v |-> 0, d |-> 0]
    ELSE Rat(100 * (mean.a - current_vol * mean.d), current_vol * mean.d)

\* ((mean - current_vol) / mean) * 100.  A zero mean divides by zero in numpy
\* floating point: the result is nan or +-inf, kept as a fraction with d = 0.
DropPct(mean, current_vol) ==
    LET num == 100 * (mean.a - current_vol * mean.d)
    IN  IF mean.a = 0
        THEN [a |-> IF num > 0 THEN 1 ELSE IF num < 0 THEN -1 ELSE 0,
              k |-> 0, v |-> 0, d |-> 0]
        ELSE Rat(num, mean.a)

\* x >= n in floating point: false for nan and -inf, true for +inf.
GeNum(x, n) == IF x.d = 0 THEN x.a > 0 ELSE Le(Num(n), x)

\* x > n in floating point.
GtNum(x, n) == IF x.d = 0 THEN x.a > 0 ELSE Lt(Num(n), x)

\* Mutant: the severity boundaries exclusive.
SeverityOf_Exclusive(drop_pct) ==
    IF GtNum(drop_pct, 70) THEN "CRITICAL"
    ELSE IF GtNum(drop_pct, 50) THEN "HIGH"
    ELSE IF GtNum(drop_pct, 30) THEN "MEDIUM"
    ELSE "LOW"

SeverityOf(drop_pct) ==
    IF GeNum(drop_pct, 70) THEN "CRITICAL"
    ELSE IF GeNum(drop_pct, 50) THEN "HIGH"
    ELSE IF GeNum(drop_pct, 30) THEN "MEDIUM"
    ELSE "LOW"

\* Mutant: the comparison with <= for <.
BelowThreshold_OrEqual(current_vol, threshold) == Le(Num(current_vol), threshold)

\* if current_vol < threshold_info['threshold']
BelowThreshold(current_vol, threshold) == Lt(Num(current_vol), threshold)

\* The first test of the loop body: len(group) < config['min_weeks']
GroupTooShort(group, sens) == Len(group) < SENSITIVITY_CONFIGS[sens].min_weeks

\* Mutant: the second test off by one.
HistoryTooShort_OffByOne(historical_data, sens) ==
    Len(historical_data) < SENSITIVITY_CONFIGS[sens].min_weeks - 1

\* The second test: len(historical_data) < config['min_weeks']
HistoryTooShort(historical_data, sens) ==
    Len(historical_data) < SENSITIVITY_CONFIGS[sens].min_weeks

NoDataAlert(key, cd, threshold_info) ==
    [app                |-> key[1],
     message_type       |-> key[2],
     week_start_date    |-> cd,
     current_volume     |-> 0,
     threshold          |-> threshold_info.threshold,
     mean_volume        |-> threshold_info.mean,
     drop_from_mean_pct |-> Num(100),
     severity           |-> "CRITICAL",
     alert_type         |-> "NO_DATA"]

VolumeDropAlert(key, cd, current_vol, threshold_info, historical_data) ==
    LET drop_pct == DropPct(threshold_info.mean, current_vol)
    IN  [app                |-> key[1],
         message_type       |-> key[2],
         week_start_date    |-> cd,
         current_volume     |-> current_vol,
         threshold          |-> threshold_info.threshold,
         mean_volume        |-> threshold_info.mean,
         recent_4wk_avg     |-> Mean(VolumeColumn(TailRows(historical_data, 4))),
         drop_from_mean_pct |-> drop_pct,
         severity           |-> SeverityOf(drop_pct),
         alert_type         |-> "VOLUME_DROP"]

\* One iteration of the loop over the groups: the branch taken and the alerts
\* appended (none or one).
ProcessGroup(d, current_week_data, key, cd, sens) ==
    LET group           == Group(d, key)
        current_vol     == Group(current_week_data, key)
        historical_data == HistoricalData(group, cd)
        threshold_info  == calculate_dynamic_threshold(VolumeColumn(historical_data), sens)
    IN  IF GroupTooShort(group, sens)
        THEN [branch |-> "skip_group", alerts |-> <<>>]
        ELSE IF Len(current_vol) = 0
        THEN IF ~HistoryTooShort(historical_data, sens)
             THEN [branch |-> "no_data",
                   alerts |-> <<NoDataAlert(key, cd, threshold_info)>>]
             ELSE [branch |-> "skip_history", alerts |-> <<>>]
        ELSE IF HistoryTooShort(historical_data, sens)
        THEN [branch |-> "skip_history", alerts |-> <<>>]
        ELSE IF BelowThreshold(current_vol[1].volume, threshold_info.threshold)
        THEN [branch |-> "volume_drop",
              alerts |-> <<VolumeDropAlert(key, cd, current_vol[1].volume,
                                           threshold_info, historical_data)>>]
        ELSE [branch |-> "normal", alerts |-> <<>>]

RECURSIVE ProcessGroups(_, _, _, _, _)
ProcessGroups(d, current_week_data, keys, cd, sens) ==
    IF keys = <<>> THEN [alerts |-> <<>>, outcomes |-> <<>>]
    ELSE LET one  == ProcessGroup(d, current_week_data, Head(keys), cd, sens)
             rest == ProcessGroups(d, current_week_data, Tail(keys), cd, sens)
         IN  [alerts   |-> one.alerts \o rest.alerts,
              outcomes |-> <<[key |-> Head(keys), branch |-> one.branch]>>
                           \o rest.outcomes]

\* if len(current_week_data) == 0: return pd.DataFrame()
NoCurrentWeekData(current_week_data) == Len(current_week_data) = 0

detect_weekly_alerts(d, cd, sens) ==
    LET current_week_data == CurrentWeekData(d, cd)
    IN  IF NoCurrentWeekData(current_week_data)
        THEN [alerts |-> <<>>, outcomes |-> <<>>]
        ELSE ProcessGroups(d, current_week_data, GroupKeys(d), cd, sens)

-----------------------------------------------------------------------------
(* weekly_monitoring.py: generate_alert_report, save_alerts, main          *)

Severities == {"CRITICAL", "HIGH", "MEDIUM", "LOW"}

\* The report: the check date, the sensitivity and, when there are alerts,
\* their number for every severity.
generate_alert_report(alerts, cd, sens) ==
    [week_starting |-> cd,
     sensitivity   |-> sens,
     total         |-> Len(alerts),
     by_severity   |-> [sv \in Severities |->
                          Cardinality({i \in DOMAIN alerts : alerts[i].severity = sv})]]

OutputFiles == {"csv", "json", "report"}

NoFiles == [f \in OutputFiles |-> "absent"]

\* The categories of the model, by (app, message_type).
FocusKey == <<1, 2>>
OtherKey == <<2, 1>>

\* The focus category reports in weeks 1..last: volume b before week split,
\* volume d from week split on.
FocusRows(last, split, b, d) ==
    [w \in 1..last |-> Row(FocusKey, w, IF w < split THEN b ELSE d)]

\* The other category: absent, reporting every week, or silent after the
\* first min_weeks(high) weeks.
OtherProfiles == {"absent", "steady", "stopped"}

OtherRows(profile) ==
    LET top == CHOOSE v \in Volumes : \A o \in Volumes : o <= v
    IN  IF profile = "absent" THEN <<>>
        ELSE IF profile = "steady" THEN [w \in 1..MaxWeek |-> Row(OtherKey, w, top)]
        ELSE [w \in 1..SENSITIVITY_CONFIGS.high.min_weeks |-> Row(OtherKey, w, top)]

Reverse(s) == [i \in DOMAIN s |-> s[Len(s) + 1 - i]]

\* The order of the rows in the file: as generated, or reversed.
RowOrders == {"ascending", "descending"}

Table(last, split, b, d, profile, order) ==
    LET rows == FocusRows(last, split, b, d) \o OtherRows(profile)
    IN  IF order = "ascending" THEN rows ELSE Reverse(rows)

CheckDates == {MaxWeek - 1, MaxWeek}

\* Histories of 8 weeks with mean 1000 and (population) standard deviation
\* 100, and the counts observed in the week after them.
ScenarioHistories ==
    {<<900, 1100, 900, 1100, 900, 1100, 900, 1100>>,
     <<1100, 1100, 1100, 1100, 900, 900, 900, 900>>,
     <<1000, 1000, 1000, 800, 1000, 1000, 1200, 1000>>,
     <<1200, 1100, 900, 900, 900, 1000, 1000, 1000>>,
     <<800, 900, 1100, 1100, 1100, 1000, 1000, 1000>>}

ScenarioObserved == {700, 750, 800, 1000}

\* The focus category with a scenario history in the 8 weeks before MaxWeek
\* and the observed count at MaxWeek.
ScenarioTable(h, observed, order) ==
    LET rows == [w \in 1..Len(h) |-> Row(FocusKey, MaxWeek - Len(h) - 1 + w, h[w])]
                \o <<Row(FocusKey, MaxWeek, observed)>>
    IN  IF order = "ascending" THEN rows ELSE Reverse(rows)

Idle ==
    /\ df_alt = <<>> /\ alerts_alt = <<>>
    /\ threshold_df = <<>> /\ analysis_alerts = <<>>
    /\ volumes = <<>> /\ regularity = <<>> /\ thresholds = <<>>
    /\ dates = <<>> /\ pattern = <<>> /\ group_volumes = <<>> /\ result = <<>>
    /\ group_df = <<>> /\ reference_date = <<>> /\ trends = <<>>
    /\ recent_weeks = 0 /\ comparison = <<>>
    /\ freq_df = <<>> /\ trend_results = <<>> /\ trend_summary = <<>>

\* main has parsed its arguments and loaded the table.
Init ==
    /\ \/ \E last \in 0..MaxWeek, b \in Volumes, d \in Volumes,
             profile \in OtherProfiles, order \in RowOrders :
             \E split \in 1..(IF last = 0 THEN 1 ELSE last) :
                df = Table(last, split, b, d, profile, order)
       \/ \E h \in ScenarioHistories, observed \in ScenarioObserved,
             order \in RowOrders :
             df = ScenarioTable(h, observed, order)
    /\ check_date \in CheckDates
    /\ sensitivity \in Sensitivities
    /\ pc = "start"
    /\ alerts_df = <<>>
    /\ outcomes = <<>>
    /\ report = <<>>
    /\ files = NoFiles
    /\ exit_status = -1
    /\ Idle

\* alerts_df = detect_weekly_alerts(df, check_date, args.sensitivity)
Detect ==
    /\ pc = "start"
    /\ LET res == detect_weekly_alerts(df, check_date, sensitivity)
       IN  /\ alerts_df' = res.alerts
           /\ outcomes' = res.outcomes
    /\ pc' = "detected"
    /\ UNCHANGED <<df, check_date, sensitivity, report, files, exit_status>>
    /\ UNCHANGED <<altVars, thrVars, freqVars, trendVars, cmpVars, runVars>>

\* report = generate_alert_report(alerts_df, check_date, args.sensitivity)
Report ==
    /\ pc = "detected"
    /\ report' = generate_alert_report(alerts_df, check_date, sensitivity)
    /\ pc' = "reported"
    /\ UNCHANGED <<df, check_date, sensitivity, alerts_df, outcomes, files, exit_status>>
    /\ UNCHANGED <<altVars, thrVars, freqVars, trendVars, cmpVars, runVars>>

\* if len(alerts_df) > 0: ... (nothing is saved otherwise)
SkipSave ==
    /\ pc = "reported"
    /\ Len(alerts_df) = 0
    /\ pc' = "complete"
    /\ UNCHANGED <<monVars, altVars, thrVars, freqVars, trendVars, cmpVars, runVars>>

\* The file the next write of main goes to.
NextFile(p) ==
    IF p = "reported" THEN "csv" ELSE IF p = "csv_saved" THEN "json" ELSE "report"

AfterWrite(p) ==
    IF p = "reported" THEN "csv_saved"
    ELSE IF p = "csv_saved" THEN "json_saved" ELSE "complete"

Saving ==
    \/ pc = "reported" /\ Len(alerts_df) > 0
    \/ pc \in {"csv_saved", "json_saved"}

\* alerts_df.to_csv, json.dump, f.write(report): in this order, each on its own file.
Write ==
    /\ Saving
    /\ files' = [files EXCEPT ![NextFile(pc)] = "written"]
    /\ pc' = AfterWrite(pc)
    /\ UNCHANGED <<df, check_date, sensitivity, alerts_df, outcomes, report, exit_status>>
    /\ UNCHANGED <<altVars, thrVars, freqVars, trendVars, cmpVars, runVars>>

\* What the files hold after a write raised: the file being written is missing
\* or incomplete, the files written before it stay.
FilesAfterFailure(fs, p, left) == [fs EXCEPT ![NextFile(p)] = left]

\* A write raises (OSError): the exception is not caught, the interpreter ends
\* the process with status 1.
WriteFails ==
    /\ Saving
    /\ \E left \in {"absent", "partial"} : files' = FilesAfterFailure(files, pc, left)
    /\ pc' = "crashed"
    /\ exit_status' = 1
    /\ UNCHANGED <<df, check_date, sensitivity, alerts_df, outcomes, report>>
    /\ UNCHANGED <<altVars, thrVars, freqVars, trendVars, cmpVars, runVars>>

\* Mutant: the status does not look at the alerts.
ExitStatus_AlwaysZero(alert_count) == 0

\* exit(0 if alert_count == 0 else 1)
ExitStatus(alert_count) == IF alert_count = 0 THEN 0 ELSE 1

Exit ==
    /\ pc = "complete"
    /\ exit_status' = ExitStatus(Len(alerts_df))
    /\ pc' = "exited"
    /\ UNCHANGED <<df, check_date, sensitivity, alerts_df, outcomes, report, files>>
    /\ UNCHANGED <<altVars, thrVars, freqVars, trendVars, cmpVars, runVars>>

Next == Detect \/ Report \/ SkipSave \/ Write \/ WriteFails \/ Exit

Spec == Init /\ [][Next]_vars

-----------------------------------------------------------------------------
(* The same run on a table main does not validate (SpecUnvalidated)        *)

\* Counts as they stand in the file: main loads the table with pd.read_csv
\* and no check of the volume column, so a negative count reaches the loop.
FileVolumes == {-4, 0, 4}

\* The focus category with n weeks before MaxWeek, the count b in the first
\* split of them and d afterwards, and the count c at MaxWeek.
UnvalidatedTable(n, split, b, d, c) ==
    [w \in 1..n |-> Row(FocusKey, MaxWeek - n - 1 + w, IF w <= split THEN b ELSE d)]
    \o <<Row(FocusKey, MaxWeek, c)>>

InitUnvalidated ==
    /\ \E n \in 3..(MaxWeek - 1), b \in FileVolumes, d \in FileVolumes,
          c \in FileVolumes :
          \E split \in 0..n : df = UnvalidatedTable(n, split, b, d, c)
    /\ check_date = MaxWeek
    /\ sensitivity \in Sensitivities
    /\ pc = "start"
    /\ alerts_df = <<>>
    /\ outcomes = <<>>
    /\ report = <<>>
    /\ files = NoFiles
    /\ exit_status = -1
    /\ Idle

SpecUnvalidated == InitUnvalidated /\ [][Next]_vars

-----------------------------------------------------------------------------
(* volume_analysis.py: calculate_thresholds, the threshold table,          *)
(* detect_alerts                                                           *)

\* SENSITIVITY_LEVELS of volume_analysis.py and volume_analysis_v2.py.
SENSITIVITY_LEVELS ==
    [high   |-> [z_num |-> 3, z_den |-> 2, percentile |-> 10, min_weeks |-> 4],
     medium |-> [z_num |-> 2, z_den |-> 1, percentile |-> 5,  min_weeks |-> 6],
     low    |-> [z_num |-> 5, z_den |-> 2, percentile |-> 2,  min_weeks |-> 8]]

CURRENT_SENSITIVITY == "medium"

\* std_vol / mean_vol if mean_vol > 0 else 0
CoefficientOfVariation(vals) ==
    IF Sum(vals) > 0 THEN Surd(0, -1, VarN2(vals), Sum(vals)) ELSE Num(0)

calculate_thresholds(vals, sens) ==
    LET config == SENSITIVITY_LEVELS[sens]
        z_threshold == ZThreshold(vals, config.z_num, config.z_den)
        percentile_threshold == Percentile(vals, config.percentile)
        iqr_threshold == IqrThreshold(vals)
    IN  [mean                 |-> Mean(vals),
         std                  |-> Std(vals),
         z_score_threshold    |-> z_threshold,
         percentile_threshold |-> percentile_threshold,
         iqr_threshold        |-> iqr_threshold,
         percentage_threshold |-> RatMul(Mean(vals), Rat(7, 10)),
         final_threshold      |-> FinalThreshold(z_threshold, percentile_threshold,
                                                 iqr_threshold),
         cv                   |-> CoefficientOfVariation(vals)]

RowLess(r1, r2) ==
    \/ KeyLess(Key(r1), Key(r2))
    \/ Key(r1) = Key(r2) /\ r1.week_start_date < r2.week_start_date

RECURSIVE InsertRow(_, _)
InsertRow(r, s) ==
    IF s = <<>> THEN <<r>>
    ELSE IF RowLess(r, Head(s)) THEN <<r>> \o s
    ELSE <<Head(s)>> \o InsertRow(r, Tail(s))

\* df.sort_values(['app', 'message_type', 'week_start_date'])
RECURSIVE SortValues(_)
SortValues(d) == IF d = <<>> THEN <<>> ELSE InsertRow(Head(d), SortValues(Tail(d)))

\* The threshold table: one row for every group with at least min_weeks rows,
\* computed on all the rows of the group.
RECURSIVE ThresholdRows(_, _)
ThresholdRows(d, keys) ==
    IF keys = <<>> THEN <<>>
    ELSE LET group == Group(d, Head(keys))
             thresholds_ == calculate_thresholds(VolumeColumn(group), CURRENT_SENSITIVITY)
         IN  (IF Len(group) >= SENSITIVITY_LEVELS[CURRENT_SENSITIVITY].min_weeks
              THEN <<[app             |-> Head(keys)[1],
                      message_type    |-> Head(keys)[2],
                      weeks_of_data   |-> Len(group),
                      mean_volume     |-> thresholds_.mean,
                      std_volume      |-> thresholds_.std,
                      cv              |-> thresholds_.cv,
                      threshold       |-> thresholds_.final_threshold,
                      z_score_method  |-> thresholds_.z_score_threshold,
                      percentile_method |-> thresholds_.percentile_threshold,
                      iqr_method      |-> thresholds_.iqr_threshold]>>
              ELSE <<>>)
             \o ThresholdRows(d, Tail(keys))

ThresholdTable(d) == ThresholdRows(d, GroupKeys(d))

\* df['week_start_date'].max()
MostRecentWeek(d) ==
    CHOOSE w \in {d[i].week_start_date : i \in DOMAIN d} :
        \A i \in DOMAIN d : d[i].week_start_date <= w

\* 'HIGH' if drop_pct > 50 else 'MEDIUM' if drop_pct > 30 else 'LOW'
AnalysisSeverity(drop_pct) ==
    IF GtNum(drop_pct, 50) THEN "HIGH"
    ELSE IF GtNum(drop_pct, 30) THEN "MEDIUM"
    ELSE "LOW"

\* The alert of detect_alerts for one row of the current week, if any.
AnalysisAlert(d, tdf, row, current_week_date) ==
    LET Mine(t) == t.app = row.app /\ t.message_type = row.message_type
        threshold_info == SelectSeq(tdf, Mine)
        threshold == threshold_info[1].threshold
        mean_vol == threshold_info[1].mean_volume
        drop_pct == DropPct(mean_vol, row.volume)
        recent_data == TailRows(HistoricalData(Group(d, Key(row)), current_week_date), 4)
    IN  IF Len(threshold_info) > 0 /\ BelowThreshold(row.volume, threshold)
        THEN <<[app                |-> row.app,
                message_type       |-> row.message_type,
                week_start_date    |-> row.week_start_date,
                current_volume     |-> row.volume,
                threshold          |-> threshold,
                mean_volume        |-> mean_vol,
                recent_4wk_avg     |-> IF Len(recent_data) > 0
                                       THEN Mean(VolumeColumn(recent_data))
                                       ELSE mean_vol,
                drop_from_mean_pct |-> drop_pct,
                severity           |-> AnalysisSeverity(drop_pct)]>>
        ELSE <<>>

RECURSIVE AnalysisAlerts(_, _, _, _)
AnalysisAlerts(d, tdf, rows, current_week_date) ==
    IF rows = <<>> THEN <<>>
    ELSE AnalysisAlert(d, tdf, Head(rows), current_week_date)
         \o AnalysisAlerts(d, tdf, Tail(rows), current_week_date)

detect_alerts(d, tdf, current_week_date) ==
    AnalysisAlerts(d, tdf, CurrentWeekData(d, current_week_date), current_week_date)

-----------------------------------------------------------------------------
(* Two monitoring runs on tables that differ in one observation, and the   *)
(* analysis script on the first table (specification SpecCompare)          *)

\* The table with the observation of category key for week w removed
\* (val = -1) or set to val.
WithObservation(d, key, w, val) ==
    LET Keep(r) == ~(Key(r) = key /\ r.week_start_date = w)
    IN  SelectSeq(d, Keep) \o (IF val = -1 THEN <<>> ELSE <<Row(key, w, val)>>)

TopVolume == CHOOSE v \in Volumes : \A o \in Volumes : o <= v
LeastVolume == CHOOSE v \in Volumes : \A o \in Volumes : v <= o

EditValues == {-1, LeastVolume, TopVolume}

\* The weeks an edit touches: for the focus category the check week and later
\* ones, for the other category the first week and the check week.
EditWeeks(key, cd) == IF key = FocusKey THEN cd..MaxWeek ELSE {1, cd}

InitCompare ==
    /\ \E last \in 0..MaxWeek, d \in Volumes, profile \in OtherProfiles :
          \E split \in 1..(IF last = 0 THEN 1 ELSE last) :
             df = Table(last, split, TopVolume, d, profile, "ascending")
    /\ check_date \in CheckDates
    /\ sensitivity \in Sensitivities
    /\ \E key \in {FocusKey, OtherKey}, val \in EditValues :
          \E w \in EditWeeks(key, check_date) :
             df_alt = WithObservation(df, key, w, val)
    /\ df # <<>>
    /\ pc = "start"
    /\ alerts_df = <<>> /\ outcomes = <<>> /\ alerts_alt = <<>>
    /\ threshold_df = <<>> /\ analysis_alerts = <<>>
    /\ report = <<>> /\ files = NoFiles /\ exit_status = -1
    /\ volumes = <<>> /\ regularity = <<>> /\ thresholds = <<>>
    /\ dates = <<>> /\ pattern = <<>> /\ group_volumes = <<>> /\ result = <<>>
    /\ group_df = <<>> /\ reference_date = <<>> /\ trends = <<>>
    /\ recent_weeks = 0 /\ comparison = <<>>
    /\ freq_df = <<>> /\ trend_results = <<>> /\ trend_summary = <<>>

\* detect_weekly_alerts on the first table
RunFirst ==
    /\ pc = "start"
    /\ LET res == detect_weekly_alerts(df, check_date, sensitivity)
       IN  /\ alerts_df' = res.alerts
           /\ outcomes' = res.outcomes
    /\ pc' = "first_done"
    /\ UNCHANGED <<df, check_date, sensitivity, report, files, exit_status>>
    /\ UNCHANGED <<altVars, thrVars, freqVars, trendVars, cmpVars, runVars>>

\* detect_weekly_alerts on the second table, same check date and sensitivity
RunSecond ==
    /\ pc = "first_done"
    /\ alerts_alt' = detect_weekly_alerts(df_alt, check_date, sensitivity).alerts
    /\ pc' = "second_done"
    /\ UNCHANGED <<monVars, df_alt, threshold_df, analysis_alerts, thrVars, freqVars, trendVars, cmpVars, runVars>>

\* volume_analysis.py on the first table: the threshold table
AnalysisThresholds ==
    /\ pc = "second_done"
    /\ threshold_df' = ThresholdTable(SortValues(df))
    /\ pc' = "thresholds_done"
    /\ UNCHANGED <<monVars, df_alt, alerts_alt, analysis_alerts, thrVars, freqVars, trendVars, cmpVars, runVars>>

\* volume_analysis.py: detect_alerts(df, threshold_df, most_recent_week)
AnalysisDetect ==
    /\ pc = "thresholds_done"
    /\ analysis_alerts' = detect_alerts(SortValues(df), threshold_df,
                                        MostRecentWeek(df))
    /\ pc' = "analysis_done"
    /\ UNCHANGED <<monVars, df_alt, alerts_alt, threshold_df, thrVars, freqVars, trendVars, cmpVars, runVars>>

NextCompare == RunFirst \/ RunSecond \/ AnalysisThresholds \/ AnalysisDetect

SpecCompare == InitCompare /\ [][NextCompare]_vars

-----------------------------------------------------------------------------
(* volume_analysis_v2.py: the pattern-aware threshold of main             *)

\* adjusted_z = config['z_score'] * (1 + (1 - regularity_factor) * 0.5), for a
\* rational regularity score r.
\* z * (1 + regularity * 0.5), in place of z * (1 + (1 - regularity) * 0.5)
AdjustedZ_RaisedByRegularity(zn, zd, r) ==
    RatMul(Rat(zn, zd), Rat(2 * r.d + r.a, 2 * r.d))

\* adjusted_z = config['z_score'] * (1 + (1 - regularity_factor) * 0.5)
AdjustedZ(zn, zd, r) == RatMul(Rat(zn, zd), Rat(3 * r.d - r.a, 2 * r.d))

PatternThreshold(vals, sens, r) ==
    LET config == SENSITIVITY_LEVELS[sens]
        adjusted_z == AdjustedZ(config.z_num, config.z_den, r)
        z_threshold == ZThreshold(vals, adjusted_z.a, adjusted_z.d)
        percentile_threshold == Percentile(vals, config.percentile)
        iqr_threshold == IqrThreshold(vals)
    IN  [regularity_score     |-> r,
         mean_volume          |-> Mean(vals),
         std_volume           |-> Std(vals),
         threshold            |-> FinalThreshold(z_threshold, percentile_threshold,
                                                 iqr_threshold),
         adjusted_z_score     |-> adjusted_z,
         z_threshold          |-> z_threshold,
         percentile_threshold |-> percentile_threshold,
         iqr_threshold        |-> iqr_threshold]

-----------------------------------------------------------------------------
(* The three threshold calculators on one sample (specification SpecThr)   *)

\* Longest sample.
MaxSample == 5

\* Counts in a sample.
SampleVolumes == {0, 1, 4, 10}

\* Regularity scores handed to the pattern-aware calculator.
RegularityScores == {Rat(0, 1), Rat(1, 2), Rat(1, 1)}

Samples == UNION {[1..n -> SampleVolumes] : n \in 1..MaxSample}

InitThr ==
    /\ volumes \in Samples
    /\ sensitivity \in Sensitivities
    /\ regularity \in RegularityScores
    /\ thresholds = <<>>
    /\ pc = "start"
    /\ df = <<>> /\ check_date = 0 /\ alerts_df = <<>> /\ outcomes = <<>>
    /\ report = <<>> /\ files = NoFiles /\ exit_status = -1
    /\ df_alt = <<>> /\ alerts_alt = <<>>
    /\ threshold_df = <<>> /\ analysis_alerts = <<>>
    /\ dates = <<>> /\ pattern = <<>> /\ group_volumes = <<>> /\ result = <<>>
    /\ group_df = <<>> /\ reference_date = <<>> /\ trends = <<>>
    /\ recent_weeks = 0 /\ comparison = <<>>
    /\ freq_df = <<>> /\ trend_results = <<>> /\ trend_summary = <<>>

\* weekly_monitoring.calculate_dynamic_threshold(volumes, sensitivity)
MonitorCalculator ==
    /\ pc = "start"
    /\ thresholds' = <<calculate_dynamic_threshold(volumes, sensitivity)>>
    /\ pc' = "monitor_done"
    /\ UNCHANGED <<monVars, altVars, volumes, regularity, freqVars, trendVars, cmpVars, runVars>>

\* volume_analysis.calculate_thresholds(group_df, sensitivity)
AnalysisCalculator ==
    /\ pc = "monitor_done"
    /\ thresholds' = Append(thresholds, calculate_thresholds(volumes, sensitivity))
    /\ pc' = "analysis_done"
    /\ UNCHANGED <<monVars, altVars, volumes, regularity, freqVars, trendVars, cmpVars, runVars>>

\* volume_analysis_v2.main, the body of the loop over freq_df
PatternCalculator ==
    /\ pc = "analysis_done"
    /\ thresholds' = Append(thresholds, PatternThreshold(volumes, sensitivity, regularity))
    /\ pc' = "pattern_done"
    /\ UNCHANGED <<monVars, altVars, volumes, regularity, freqVars, trendVars, cmpVars, runVars>>

\* the next iteration of the loop, for a category with the same volumes and
\* another regularity score
PatternCalculatorNext ==
    /\ pc = "pattern_done"
    /\ \E r \in RegularityScores :
          thresholds' = Append(thresholds, PatternThreshold(volumes, sensitivity, r))
    /\ pc' = "pattern_next_done"
    /\ UNCHANGED <<monVars, altVars, volumes, regularity, freqVars, trendVars, cmpVars, runVars>>

NextThr ==
    MonitorCalculator \/ AnalysisCalculator \/ PatternCalculator \/ PatternCalculatorNext

SpecThr == InitThr /\ [][NextThr]_vars

-----------------------------------------------------------------------------
(* frequency_detector.py: analyze_occurrence_pattern                       *)

\* 1 - x
OneMinus(x) == Surd(x.d - x.a, -x.k, x.v, x.d)

\* x * c for a rational c
Scale(x, c) == Surd(x.a * c.a, x.k * c.a, x.v, x.d * c.d)

\* Python's min(x, y): the first argument unless the second is strictly less.
Min2(x, y) == IF Lt(y, x) THEN y ELSE x

\* [(dates[i+1] - dates[i]).days for i in range(len(dates)-1)], dates in days
Gaps(ds) == [i \in 1..(Len(ds) - 1) |-> ds[i + 1] - ds[i]]

\* the sample standard deviation (n - 1) in place of np.std's population one
CvGap_SampleStd(gaps) ==
    IF Sum(gaps) > 0
    THEN Surd(0, -1, VarN2(gaps) * Len(gaps) * (Len(gaps) - 1),
              (Len(gaps) - 1) * Sum(gaps))
    ELSE Num(1)

\* cv_gap = std_gap / avg_gap if avg_gap > 0 else 1.0
CvGap(gaps) ==
    IF Sum(gaps) > 0 THEN Surd(0, -1, VarN2(gaps), Sum(gaps)) ELSE Num(1)

\* 1 - cv_gap, without the clamp to [0, 1]
RegularityScore_Unclamped(gaps) == OneMinus(CvGap(gaps))

\* regularity_score = max(0, 1 - min(cv_gap, 1.0))
RegularityScore(gaps) == Max2(Num(0), OneMinus(Min2(CvGap(gaps), Num(1))))

\* avg_gap < days, in place of avg_gap <= days
AtMost_Strict(avg_gap, days) == Lt(avg_gap, Num(days))

\* avg_gap <= days
AtMost(avg_gap, days) == Le(avg_gap, Num(days))

\* The frequency category for the average gap and the regularity score.
FrequencyOf(avg_gap, r) ==
    IF AtMost(avg_gap, 10) /\ Lt(Rat(1, 2), r) THEN "daily"
    ELSE IF Lt(Num(10), avg_gap) /\ AtMost(avg_gap, 21) /\ Lt(Rat(2, 5), r) THEN "weekly"
    ELSE IF Lt(Num(21), avg_gap) /\ AtMost(avg_gap, 45)
    THEN (IF Lt(Rat(2, 5), r) THEN "biweekly" ELSE "monthly")
    ELSE IF Lt(Num(45), avg_gap) /\ AtMost(avg_gap, 120)
    THEN (IF Lt(Rat(1, 2), r) THEN "monthly" ELSE "quarterly")
    ELSE IF Lt(Num(120), avg_gap) /\ AtMost(avg_gap, 270)
    THEN (IF Lt(Rat(1, 2), r) THEN "quarterly" ELSE "semi_annual")
    ELSE (IF Lt(Rat(3, 10), r) THEN "semi_annual" ELSE "irregular")

\* The confidence set in the same branch.
ConfidenceOf(avg_gap, r) ==
    IF AtMost(avg_gap, 10) /\ Lt(Rat(1, 2), r) THEN r
    ELSE IF Lt(Num(10), avg_gap) /\ AtMost(avg_gap, 21) /\ Lt(Rat(2, 5), r) THEN r
    ELSE IF Lt(Num(21), avg_gap) /\ AtMost(avg_gap, 45) THEN r
    ELSE IF Lt(Num(45), avg_gap) /\ AtMost(avg_gap, 120) THEN Scale(r, Rat(8, 10))
    ELSE IF Lt(Num(120), avg_gap) /\ AtMost(avg_gap, 270) THEN Scale(r, Rat(7, 10))
    ELSE Scale(r, Rat(5, 10))

\* len(gaps) >= 3, in place of len(gaps) > 3
IrregularOverride_FromThreeGaps(r, gaps) == Lt(r, Rat(3, 10)) /\ Len(gaps) >= 3

\* if regularity_score < 0.3 and len(gaps) > 3
IrregularOverride(r, gaps) == Lt(r, Rat(3, 10)) /\ Len(gaps) > 3

\* the dates as handed over, in place of sorted(dates)
SortDates_AsGiven(ds) == ds

\* dates = sorted(dates)
SortDates(ds) == Sorted(ds)

analyze_occurrence_pattern(ds) ==
    LET sorted_dates == SortDates(ds)
        gaps == Gaps(sorted_dates)
        avg_gap == Mean(gaps)
        regularity_score == RegularityScore(gaps)
    IN  IF Len(ds) < 2
        THEN [frequency |-> "insufficient_data", confidence |-> Num(0),
              avg_gap |-> Num(0), regularity_score |-> Num(0)]
        ELSE IF Len(gaps) = 0
        THEN [frequency |-> "single_occurrence", confidence |-> Num(0),
              avg_gap |-> Num(0), regularity_score |-> Num(0)]
        ELSE IF IrregularOverride(regularity_score, gaps)
        THEN [frequency |-> "irregular", confidence |-> OneMinus(regularity_score),
              avg_gap |-> avg_gap, regularity_score |-> regularity_score]
        ELSE [frequency |-> FrequencyOf(avg_gap, regularity_score),
              confidence |-> ConfidenceOf(avg_gap, regularity_score),
              avg_gap |-> avg_gap, regularity_score |-> regularity_score]

-----------------------------------------------------------------------------
(* frequency_detector.py: detect_frequency_advanced                        *)

\* total_weeks=104
TotalWeeksDefault == 104

\* np.min(volumes), np.max(volumes) of a non-empty column
SeqMin(s) == CHOOSE x \in {s[i] : i \in DOMAIN s} : \A i \in DOMAIN s : x <= s[i]
SeqMax(s) == CHOOSE x \in {s[i] : i \in DOMAIN s} : \A i \in DOMAIN s : x >= s[i]

\* np.std(volumes) / np.mean(volumes) without the test of the mean: 0 / 0 is nan
CvVolume_Unguarded(vols) ==
    IF Sum(vols) > 0 THEN Surd(0, -1, VarN2(vols), Sum(vols))
    ELSE [a |-> 0, k |-> 0, v |-> 0, d |-> 0]

\* np.std(volumes) / np.mean(volumes) if np.mean(volumes) > 0 else 0
CvVolume(vols) ==
    IF Sum(vols) > 0 THEN Surd(0, -1, VarN2(vols), Sum(vols)) ELSE Num(0)

\* The call on a group with the given date and volume columns.  np.min of
\* an empty column raises ValueError while the dict is being built.
detect_frequency_advanced(ds, vols) ==
    LET p == analyze_occurrence_pattern(ds)
    IN  IF Len(vols) = 0
        THEN [raised |-> "ValueError"]
        ELSE [raised |-> "none",
              frequency_category |-> p.frequency,
              confidence |-> p.confidence,
              weeks_with_data |-> Len(ds),
              occurrence_rate |-> Rat(Len(ds), TotalWeeksDefault),
              avg_gap_days |-> p.avg_gap,
              regularity_score |-> p.regularity_score,
              avg_volume |-> Mean(vols),
              std_volume |-> Std(vols),
              min_volume |-> SeqMin(vols),
              max_volume |-> SeqMax(vols),
              cv_volume |-> CvVolume(vols),
              total_occurrences |-> Len(ds)]

-----------------------------------------------------------------------------
(* The detector on one series of dates (specification SpecFreq)            *)

\* Most gaps in a series.
MaxGaps == 4

\* Gaps, in days, between consecutive dates of a series.
GapChoices == {0, 10, 11, 21, 44, 45, 46, 120, 270, 271}

\* The dates, in days from the first, of a series with the given gaps.
DatesOf(gaps) == [i \in 1..(Len(gaps) + 1) |-> Sum(SubSeq(gaps, 1, i - 1))]

GapSeries == UNION {[1..n -> GapChoices] : n \in 1..MaxGaps}

\* The order the dates are handed over in.
DateOrders == {"ascending", "descending"}

\* The series of the module's self-test: every 4 weeks 13 times, the week
\* offsets 0, 2, 8, 10, 30, 45, 50, and every 13 weeks 4 times.
monthly_dates == [i \in 1..13 |-> (i - 1) * 4 * 7]
irregular_dates == [i \in 1..7 |-> <<0, 2, 8, 10, 30, 45, 50>>[i] * 7]
quarterly_dates == [i \in 1..4 |-> (i - 1) * 13 * 7]

TestSeries == {monthly_dates, irregular_dates, quarterly_dates}

\* The volume every row of the group carries.
GroupVolumes == {0, 1000}

InitFreq ==
    /\ \E order \in DateOrders :
          \/ \E g \in GapSeries :
                dates = IF order = "ascending" THEN DatesOf(g) ELSE Reverse(DatesOf(g))
          \/ \E t \in TestSeries :
                dates = IF order = "ascending" THEN t ELSE Reverse(t)
          \/ dates \in {<<>>, <<0>>}
          \/ \E g \in GapChoices, n \in 1..MaxGaps :
                \E f \in Permutations(1..(n + 1)) :
                   dates = [i \in 1..(n + 1) |-> (f[i] - 1) * g]
    /\ pattern = <<>>
    /\ group_volumes = <<>>
    /\ result = <<>>
    /\ pc = "start"
    /\ df = <<>> /\ check_date = 0 /\ sensitivity = "medium"
    /\ alerts_df = <<>> /\ outcomes = <<>>
    /\ report = <<>> /\ files = NoFiles /\ exit_status = -1
    /\ df_alt = <<>> /\ alerts_alt = <<>>
    /\ threshold_df = <<>> /\ analysis_alerts = <<>>
    /\ volumes = <<>> /\ regularity = <<>> /\ thresholds = <<>>
    /\ group_df = <<>> /\ reference_date = <<>> /\ trends = <<>>
    /\ recent_weeks = 0 /\ comparison = <<>>
    /\ freq_df = <<>> /\ trend_results = <<>> /\ trend_summary = <<>>

\* frequency, confidence, avg_gap, regularity = analyze_occurrence_pattern(dates)
Analyze ==
    /\ pc = "start"
    /\ pattern' = analyze_occurrence_pattern(dates)
    /\ pc' = "analyzed"
    /\ UNCHANGED <<monVars, altVars, thrVars, dates, group_volumes, result, trendVars, cmpVars, runVars>>

\* result = detect_frequency_advanced(group_df), on a group whose rows all
\* carry the same volume
DetectFrequency ==
    /\ pc = "start"
    /\ \E v \in GroupVolumes :
          /\ group_volumes' = [i \in DOMAIN dates |-> v]
          /\ result' = detect_frequency_advanced(dates, group_volumes')
    /\ pc' = "detected_frequency"
    /\ UNCHANGED <<monVars, altVars, thrVars, dates, pattern, trendVars, cmpVars, runVars>>

NextFreq == Analyze \/ DetectFrequency

SpecFreq == InitFreq /\ [][NextFreq]_vars

-----------------------------------------------------------------------------
(* trend_analyzer.py: calculate_trend_metrics, analyze_trends_multi_window *)

\* sum of i * s[i + 1] for the positions x = 0 .. len(s) - 1
RECURSIVE SumXY(_)
SumXY(s) == IF s = <<>> THEN 0 ELSE (Len(s) - 1) * s[Len(s)] + SumXY(SubSeq(s, 1, Len(s) - 1))

\* stats.linregress(np.arange(len(volumes)), volumes).slope, least squares
Slope(vols) ==
    LET n  == Len(vols)
        sx == (n * (n - 1)) \div 2
        sxx == ((n - 1) * n * (2 * n - 1)) \div 6
    IN  Rat(n * SumXY(vols) - sx * Sum(vols), n * sxx - sx * sx)

\* np.median(volumes)
Median(vols) ==
    LET s == Sorted(vols)
        n == Len(s)
    IN  IF n % 2 = 1 THEN Num(s[(n + 1) \div 2])
        ELSE Rat(s[n \div 2] + s[n \div 2 + 1], 2)

\* volumes[0] whatever the length, in place of the mean of the first half
FirstHalfAvg_FirstPoint(vols) == Num(vols[1])

\* np.mean(volumes[:len(volumes)//2]) if len(volumes) >= 4 else volumes[0]
FirstHalfAvg(vols) ==
    IF Len(vols) >= 4 THEN Mean(SubSeq(vols, 1, Len(vols) \div 2)) ELSE Num(vols[1])

\* np.mean(volumes[len(volumes)//2:]) if len(volumes) >= 4 else volumes[-1]
SecondHalfAvg(vols) ==
    IF Len(vols) >= 4 THEN Mean(SubSeq(vols, Len(vols) \div 2 + 1, Len(vols)))
    ELSE Num(vols[Len(vols)])

\* ((second_half_avg - first_half_avg) / first_half_avg) * 100, or 0
GrowthRate(vols) ==
    LET first  == FirstHalfAvg(vols)
        second == SecondHalfAvg(vols)
    IN  IF Lt(Num(0), first)
        THEN RatMul(RatSub(second, first), Rat(100 * first.d, first.a))
        ELSE Num(0)

\* the chain  abs(growth_rate) < 5 / growth_rate > 5 / else
TrendDirection(growth_rate) ==
    IF Lt(Rat(Abs(growth_rate.a), growth_rate.d), Num(5)) THEN "stable"
    ELSE IF Lt(Num(5), growth_rate) THEN "increasing"
    ELSE "decreasing"

calculate_trend_metrics(vols) ==
    IF Len(vols) = 0
    THEN [avg_volume |-> Num(0), total_volume |-> 0, trend_direction |-> "no_data",
          growth_rate_pct |-> Num(0), volatility |-> Num(0), slope |-> Num(0),
          data_points |-> 0]
    ELSE [avg_volume      |-> Mean(vols),
          total_volume    |-> Sum(vols),
          trend_direction |-> IF Len(vols) >= 2 THEN TrendDirection(GrowthRate(vols))
                              ELSE "insufficient_data",
          growth_rate_pct |-> IF Len(vols) >= 2 THEN GrowthRate(vols) ELSE Num(0),
          volatility      |-> IF Sum(vols) > 0
                              THEN Surd(0, -1, VarN2(vols), Sum(vols)) ELSE Num(0),
          slope           |-> IF Len(vols) >= 2 THEN Slope(vols) ELSE Num(0),
          data_points     |-> Len(vols),
          min_volume      |-> SeqMin(vols),
          max_volume      |-> SeqMax(vols),
          median_volume   |-> Median(vols)]

\* windows, in weeks
windows ==
    ("2_weeks" :> 2) @@ ("1_month" :> 4) @@ ("3_months" :> 13) @@ ("6_months" :> 26)
    @@ ("9_months" :> 39) @@ ("12_months" :> 52) @@ ("18_months" :> 78)

\* timedelta(weeks=weeks_back), in days
TimedeltaWeeks(weeks_back) == 7 * weeks_back

\* group_df['week_start_date'].max()
LatestDate(g) ==
    CHOOSE d \in {g[i].week_start_date : i \in DOMAIN g} :
        \A i \in DOMAIN g : g[i].week_start_date <= d

\* week_start_date <= cutoff_date, in place of week_start_date > cutoff_date
AfterCutoff_Inclusive(date, cutoff_date) == date >= cutoff_date

\* group_df['week_start_date'] > cutoff_date
AfterCutoff(date, cutoff_date) == date > cutoff_date

\* .sort_values('week_start_date'), on rows of distinct dates
RECURSIVE SortByDate(_)
SortByDate(g) ==
    IF g = <<>> THEN <<>>
    ELSE LET rest == SortByDate(SubSeq(g, 1, Len(g) - 1))
             r    == g[Len(g)]
             k    == Cardinality({i \in DOMAIN rest :
                                     rest[i].week_start_date <= r.week_start_date})
         IN  SubSeq(rest, 1, k) \o <<r>> \o SubSeq(rest, k + 1, Len(rest))

\* the rows with cutoff_date < week_start_date <= reference_date, sorted by date
WindowData(g, cutoff_date, ref) ==
    SortByDate(SelectSeq(g, LAMBDA r : /\ AfterCutoff(r.week_start_date, cutoff_date)
                                       /\ r.week_start_date <= ref))

analyze_trends_multi_window(g, ref_arg) ==
    LET ref == IF ref_arg = <<>> THEN LatestDate(g) ELSE ref_arg[1]
    IN  [window_name \in DOMAIN windows |->
            LET cutoff_date == ref - TimedeltaWeeks(windows[window_name])
                window_data == WindowData(g, cutoff_date, ref)
            IN  calculate_trend_metrics([i \in DOMAIN window_data |-> window_data[i].volume])]

\* abs(change_pct) < 10 / change_pct >= 10 / change_pct < -10 / else
ComparisonStatus_TenIsIncreasing(change_pct) ==
    IF Lt(Rat(Abs(change_pct.a), change_pct.d), Num(10)) THEN "normal"
    ELSE IF Le(Num(10), change_pct) THEN "increasing"
    ELSE IF Lt(change_pct, Num(-10)) THEN "decreasing"
    ELSE "normal"

\* the chain  abs(change_pct) < 10 / change_pct > 10 / change_pct < -10 / else
ComparisonStatus(change_pct) ==
    IF Lt(Rat(Abs(change_pct.a), change_pct.d), Num(10)) THEN "normal"
    ELSE IF Lt(Num(10), change_pct) THEN "increasing"
    ELSE IF Lt(change_pct, Num(-10)) THEN "decreasing"
    ELSE "normal"

\* ((recent_avg - historical_avg) / historical_avg) * 100, or 0
ChangePct(recent_avg, historical_avg) ==
    IF Lt(Num(0), historical_avg)
    THEN RatMul(RatSub(recent_avg, historical_avg),
                Rat(100 * historical_avg.d, historical_avg.a))
    ELSE Num(0)

\* compare_recent_to_historical(group_df, recent_weeks), recent_weeks >= 1
compare_recent_to_historical(g, n_recent) ==
    IF Len(g) < n_recent + 4
    THEN [recent_avg |-> Num(0), historical_avg |-> Num(0), change_pct |-> Num(0),
          status |-> "insufficient_data"]
    ELSE LET df_sorted      == SortByDate(g)
             sorted_volumes == [i \in DOMAIN df_sorted |-> df_sorted[i].volume]
             n              == Len(sorted_volumes)
             recent_avg     == Mean(SubSeq(sorted_volumes, n - n_recent + 1, n))
             historical_avg == Mean(SubSeq(sorted_volumes, 1, n - n_recent))
             change_pct     == ChangePct(recent_avg, historical_avg)
         IN  [recent_avg     |-> recent_avg,
              historical_avg |-> historical_avg,
              change_pct     |-> change_pct,
              status         |-> ComparisonStatus(change_pct),
              recent_weeks   |-> n_recent]

-----------------------------------------------------------------------------
(* The trend analysis of one category (specification SpecTrend)            *)

\* Most consecutive recent weeks in a group.
MaxTrendWeeks == 5

\* Counts of a group.
TrendVolumes == {0, 90, 95, 100, 105, 110, 200}

\* The day of the latest observation.
LatestDay == 7 * 80

\* The last n weeks: the count b in the first split of them, d afterwards.
RecentRows(n, split, b, d) ==
    [i \in 1..n |-> [week_start_date |-> LatestDay - 7 * (n - i),
                     volume |-> IF i <= split THEN b ELSE d]]

\* Older observations: none, one exactly on the cutoff date of each of the
\* five longest windows, or one a day after each of these dates.
OldProfiles == {"none", "on_cutoff", "inside_cutoff"}

OldRows(old, b) ==
    LET back == <<78, 52, 39, 26, 13>>
    IN  IF old = "none" THEN <<>>
        ELSE [i \in 1..Len(back) |->
                [week_start_date |-> LatestDay - 7 * back[i]
                                     + (IF old = "inside_cutoff" THEN 1 ELSE 0),
                 volume |-> b]]

\* reference_date: None, the latest date, a week before it, 3 days after it
ReferenceDates == {<<>>, <<LatestDay>>, <<LatestDay - 7>>, <<LatestDay + 3>>}

InitTrend ==
    /\ \E n \in 1..MaxTrendWeeks, b \in TrendVolumes, d \in TrendVolumes,
          old \in OldProfiles, order \in RowOrders :
          \E split \in 0..n :
             LET rows == OldRows(old, b) \o RecentRows(n, split, b, d)
             IN  group_df = IF order = "ascending" THEN rows ELSE Reverse(rows)
    /\ reference_date \in ReferenceDates
    /\ trends = <<>>
    /\ pc = "start"
    /\ df = <<>> /\ check_date = 0 /\ sensitivity = "medium"
    /\ alerts_df = <<>> /\ outcomes = <<>>
    /\ report = <<>> /\ files = NoFiles /\ exit_status = -1
    /\ df_alt = <<>> /\ alerts_alt = <<>>
    /\ threshold_df = <<>> /\ analysis_alerts = <<>>
    /\ volumes = <<>> /\ regularity = <<>> /\ thresholds = <<>>
    /\ dates = <<>> /\ pattern = <<>> /\ group_volumes = <<>> /\ result = <<>>
    /\ recent_weeks = 0 /\ comparison = <<>>
    /\ freq_df = <<>> /\ trend_results = <<>> /\ trend_summary = <<>>

\* trends = analyze_trends_multi_window(group_df, reference_date)
AnalyzeTrends ==
    /\ pc = "start"
    /\ trends' = analyze_trends_multi_window(group_df, reference_date)
    /\ pc' = "trends_done"
    /\ UNCHANGED <<monVars, altVars, thrVars, freqVars, group_df, reference_date,
                   cmpVars, runVars>>

\* Numbers of recent weeks a comparison is asked for; callers pass 4.
RecentWeeks == {1, 2, 4}

\* comparison = compare_recent_to_historical(group_df, recent_weeks)
Compare ==
    /\ pc = "start"
    /\ \E n_recent \in RecentWeeks :
          /\ recent_weeks' = n_recent
          /\ comparison' = compare_recent_to_historical(group_df, n_recent)
    /\ pc' = "compared"
    /\ UNCHANGED <<monVars, altVars, thrVars, freqVars, trendVars, runVars>>

NextTrend == AnalyzeTrends \/ Compare

SpecTrend == InitTrend /\ [][NextTrend]_vars

-----------------------------------------------------------------------------
(* volume_analysis_v2.py: main                                             *)

\* the argument of freq_df.nlargest(10, 'avg_volume')
TopCombinations == 10

\* compare_recent_to_historical(group_data, recent_weeks=4)
RecentWeeksOfRun == 4

\* The keys of the dict windows, in the order of the dict.
WindowNames ==
    <<"2_weeks", "1_month", "3_months", "6_months", "9_months", "12_months", "18_months">>

\* the date column of a group
DateColumn(rows) == [i \in DOMAIN rows |-> rows[i].week_start_date]

\* {'app': app, 'message_type': msg_type, **freq_analysis}
FrequencyRow(d, key) ==
    LET group == Group(d, key)
    IN  [app |-> key[1], message_type |-> key[2]]
        @@ detect_frequency_advanced(DateColumn(group), VolumeColumn(group))

\* the loop over df.groupby(['app', 'message_type']) building freq_df
FrequencyRows(d) ==
    LET keys == GroupKeys(d)
    IN  [i \in DOMAIN keys |-> FrequencyRow(d, keys[i])]

\* rows.nlargest(n, 'avg_volume') taking every row, in place of the n first
NLargest_All(rows, n) == rows

\* rows.nlargest(n, 'avg_volume'): the n rows of largest avg_volume, largest
\* first, rows of equal avg_volume in the order of the table (keep='first')
RECURSIVE NLargest(_, _)
NLargest(rows, n) ==
    IF n = 0 \/ rows = <<>> THEN <<>>
    ELSE LET i == CHOOSE j \in DOMAIN rows :
                    /\ \A o \in DOMAIN rows : ~Lt(rows[j].avg_volume, rows[o].avg_volume)
                    /\ \A o \in 1..(j - 1) : Lt(rows[o].avg_volume, rows[j].avg_volume)
         IN  <<rows[i]>>
             \o NLargest(SubSeq(rows, 1, i - 1) \o SubSeq(rows, i + 1, Len(rows)), n - 1)

\* one iteration of the loop over top_combinations
TrendResult(d, row) ==
    LET group_data == Group(d, <<row.app, row.message_type>>)
    IN  [app                  |-> row.app,
         message_type         |-> row.message_type,
         trends               |-> analyze_trends_multi_window(group_data, <<>>),
         recent_vs_historical |-> compare_recent_to_historical(group_data,
                                                               RecentWeeksOfRun)]

\* the loop over top_combinations building trend_results
TrendResults(d, freq) ==
    LET top_combinations == NLargest(freq, TopCombinations)
    IN  [i \in DOMAIN top_combinations |-> TrendResult(d, top_combinations[i])]

\* one iteration of the loop over freq_df building threshold_data: nothing
\* for a group shorter than min_weeks
ThresholdRow(d, row) ==
    LET group == Group(d, <<row.app, row.message_type>>)
    IN  IF Len(group) < SENSITIVITY_LEVELS[CURRENT_SENSITIVITY].min_weeks THEN <<>>
        ELSE <<[app |-> row.app, message_type |-> row.message_type,
                frequency_category |-> row.frequency_category]
               @@ PatternThreshold(VolumeColumn(group), CURRENT_SENSITIVITY,
                                   row.regularity_score)>>

RECURSIVE ThresholdData(_, _)
ThresholdData(d, freq) ==
    IF freq = <<>> THEN <<>>
    ELSE ThresholdRow(d, Head(freq)) \o ThresholdData(d, Tail(freq))

\* the rows of trend_analysis.csv: for each result, for each window,
\* {'app': ..., 'message_type': ..., 'window': window, **metrics}
TrendSummary(results) ==
    [i \in 1..(Len(WindowNames) * Len(results)) |->
        LET res    == results[((i - 1) \div Len(WindowNames)) + 1]
            window == WindowNames[((i - 1) % Len(WindowNames)) + 1]
        IN  [app |-> res.app, message_type |-> res.message_type, window |-> window]
            @@ res.trends[window]]

-----------------------------------------------------------------------------
(* An analysis run of volume_analysis_v2.py (specification SpecRun)        *)

\* Most categories in the table of a run.
MaxCategories == 11

\* The week of the latest observation of every category.
RunLatestWeek == 80

\* The observations of a category: the counts, and how many weeks before
\* the latest week each one is dated.
GroupProfiles ==
    [one_low        |-> [counts |-> <<100>>, back |-> <<0>>],
     one_high       |-> [counts |-> <<200>>, back |-> <<0>>],
     steady         |-> [counts |-> <<100, 100, 100, 100, 100, 100, 100, 100>>,
                         back   |-> <<7, 6, 5, 4, 3, 2, 1, 0>>],
     all_zero       |-> [counts |-> <<0, 0, 0, 0, 0, 0, 0, 0>>,
                         back   |-> <<7, 6, 5, 4, 3, 2, 1, 0>>],
     zero_then_up   |-> [counts |-> <<0, 0, 0, 0, 0, 0, 100, 100>>,
                         back   |-> <<7, 6, 5, 4, 3, 2, 1, 0>>],
     same_day_twice |-> [counts |-> <<100, 100>>, back |-> <<0, 0>>]]

\* The rows of category c with the given profile, dates in days.
GroupRows(c, p) ==
    [i \in DOMAIN GroupProfiles[p].counts |->
        Row(<<c, 1>>, 7 * (RunLatestWeek - GroupProfiles[p].back[i]),
            GroupProfiles[p].counts[i])]

\* The table of the categories 1 .. Len(ps), category c with profile ps[c],
\* as main has it after sort_values(['app', 'message_type', 'week_start_date']).
RECURSIVE RunTable(_)
RunTable(ps) ==
    IF ps = <<>> THEN <<>>
    ELSE RunTable(SubSeq(ps, 1, Len(ps) - 1)) \o GroupRows(Len(ps), ps[Len(ps)])

\* Tables of many single-row categories: at most two of them of the high
\* count, at most one category with a steady history.
ManyCategories ==
    {[c \in 1..k |-> IF c = long THEN "steady"
                     ELSE IF c \in high THEN "one_high" ELSE "one_low"] :
        k \in 1..MaxCategories, long \in 0..MaxCategories,
        high \in {h \in SUBSET (1..MaxCategories) : Cardinality(h) <= 2}}

\* Tables of up to 3 categories of any profile.
FewCategories == UNION {[1..k -> DOMAIN GroupProfiles] : k \in 1..3}

InitRun ==
    /\ \E ps \in ManyCategories \cup FewCategories : df = RunTable(ps)
    /\ check_date = 0 /\ sensitivity = CURRENT_SENSITIVITY
    /\ pc = "start"
    /\ alerts_df = <<>> /\ outcomes = <<>>
    /\ report = <<>> /\ files = NoFiles /\ exit_status = -1
    /\ Idle

\* STEP 1: freq_df = pd.DataFrame(frequency_results)
RunFrequency ==
    /\ pc = "start"
    /\ freq_df' = FrequencyRows(df)
    /\ pc' = "frequency_analysed"
    /\ UNCHANGED <<monVars, altVars, thrVars, freqVars, trendVars, cmpVars,
                   trend_results, trend_summary>>

\* STEP 2: the trends of the top combinations
RunTrends ==
    /\ pc = "frequency_analysed"
    /\ trend_results' = TrendResults(df, freq_df)
    /\ pc' = "trends_analysed"
    /\ UNCHANGED <<monVars, altVars, thrVars, freqVars, trendVars, cmpVars,
                   freq_df, trend_summary>>

\* STEP 3: threshold_df = pd.DataFrame(threshold_data).  When no group has
\* min_weeks rows the frame has no column and the lookup of
\* threshold_df['frequency_category'] in the examples raises KeyError: the
\* run ends before anything is saved.
RunThresholds ==
    /\ pc = "trends_analysed"
    /\ threshold_df' = ThresholdData(df, freq_df)
    /\ pc' = IF threshold_df' = <<>> THEN "run_crashed" ELSE "thresholds_calculated"
    /\ UNCHANGED <<monVars, df_alt, alerts_alt, analysis_alerts, thrVars, freqVars,
                   trendVars, cmpVars, runVars>>

\* SAVE RESULTS: pd.DataFrame(trend_summary).to_csv(trend_file)
RunSave ==
    /\ pc = "thresholds_calculated"
    /\ trend_summary' = TrendSummary(trend_results)
    /\ pc' = "run_saved"
    /\ UNCHANGED <<monVars, altVars, thrVars, freqVars, trendVars, cmpVars,
                   freq_df, trend_results>>

NextRun == RunFrequency \/ RunTrends \/ RunThresholds \/ RunSave

SpecRun == InitRun /\ [][NextRun]_vars

-----------------------------------------------------------------------------
(* Properties of a monitoring run (specification Spec)                     *)

Keys(d) == {Key(d[i]) : i \in DOMAIN d}

PriorIdx(d, key, cd) ==
    {i \in DOMAIN d : Key(d[i]) = key /\ d[i].week_start_date < cd}

PriorCount(d, key, cd) == Cardinality(PriorIdx(d, key, cd))

ReportsAt(d, key, cd) ==
    \E i \in DOMAIN d : Key(d[i]) = key /\ d[i].week_start_date = cd

\* The count a category reports for the week cd (one row per category and week).
ObservedAt(d, key, cd) ==
    d[CHOOSE i \in DOMAIN d : Key(d[i]) = key /\ d[i].week_start_date = cd].volume

RECURSIVE SeqOfIdx(_, _)
SeqOfIdx(d, I) ==
    IF I = {} THEN <<>>
    ELSE LET i == CHOOSE j \in I : \A o \in I : j <= o
         IN  <<d[i].volume>> \o SeqOfIdx(d, I \ {i})

\* The counts a category reported strictly before cd.
PriorVolumes(d, key, cd) == SeqOfIdx(d, PriorIdx(d, key, cd))

MinWeeks(sens) == SENSITIVITY_CONFIGS[sens].min_weeks

Qualified(d, key, cd, sens) == PriorCount(d, key, cd) >= MinWeeks(sens)

AlertsFor(alerts, key) ==
    {i \in DOMAIN alerts : alerts[i].app = key[1] /\ alerts[i].message_type = key[2]}

Detected == pc \notin {"start"}

BranchOf(key) ==
    {outcomes[i].branch : i \in {j \in DOMAIN outcomes : outcomes[j].key = key}}

\* C1: every category with at least min_weeks observations before the check
\* date and none at the check date gets exactly one alert, of type NO_DATA,
\* severity CRITICAL, current_volume 0 and drop_from_mean_pct 100, also when no
\* category at all reports at the check date.
C1_SilentCategoryGetsNoDataAlert ==
    Detected =>
        \A key \in Keys(df) :
            (Qualified(df, key, check_date, sensitivity)
             /\ ~ReportsAt(df, key, check_date))
            => /\ Cardinality(AlertsFor(alerts_df, key)) = 1
               /\ \A i \in AlertsFor(alerts_df, key) :
                    /\ alerts_df[i].alert_type = "NO_DATA"
                    /\ alerts_df[i].severity = "CRITICAL"
                    /\ alerts_df[i].current_volume = 0
                    /\ Eq(alerts_df[i].drop_from_mean_pct, Num(100))

\* x < final threshold of the sample, decided on the three estimators one by one.
BelowSomeEstimator(x, vals, sens) ==
    LET m == calculate_dynamic_threshold(vals, sens).methods
    IN  Lt(Num(x), m.z_score) \/ Lt(Num(x), m.percentile) \/ Lt(Num(x), m.iqr)

\* C2: a category with at least min_weeks prior observations that reports at
\* the check date gets a VOLUME_DROP alert exactly when its count is strictly
\* below the threshold of its prior history; a count at or above it gives no
\* alert.
C2_VolumeDropIffBelowThreshold ==
    Detected =>
        \A key \in Keys(df) :
            (Qualified(df, key, check_date, sensitivity)
             /\ ReportsAt(df, key, check_date))
            => LET below == BelowSomeEstimator(ObservedAt(df, key, check_date),
                                               PriorVolumes(df, key, check_date),
                                               sensitivity)
               IN  /\ below => /\ Cardinality(AlertsFor(alerts_df, key)) = 1
                               /\ \A i \in AlertsFor(alerts_df, key) :
                                    alerts_df[i].alert_type = "VOLUME_DROP"
                   /\ ~below => AlertsFor(alerts_df, key) = {}

\* C2 witness: a reporting category whose count equals its threshold and is
\* not alerted, beside a category that is alerted for a drop.
C2_Witness ==
    /\ Detected
    /\ \E i \in DOMAIN alerts_df : alerts_df[i].alert_type = "VOLUME_DROP"
    /\ \E key \in Keys(df) :
          /\ Qualified(df, key, check_date, sensitivity)
          /\ ReportsAt(df, key, check_date)
          /\ AlertsFor(alerts_df, key) = {}
          /\ Eq(Num(ObservedAt(df, key, check_date)),
                calculate_dynamic_threshold(PriorVolumes(df, key, check_date),
                                            sensitivity).threshold)

\* drop_pct >= n, with drop_pct = (mean - observed)/mean * 100 over the prior
\* counts vals (of positive sum), in integers.
DropAtLeast(vals, observed, n) ==
    100 * (Sum(vals) - Len(vals) * observed) >= n * Sum(vals)

\* C3: a VOLUME_DROP alert is CRITICAL when drop_pct >= 70, HIGH when
\* 50 <= drop_pct < 70, MEDIUM when 30 <= drop_pct < 50, LOW when drop_pct < 30.
C3_SeverityByDropPct ==
    Detected =>
        \A i \in DOMAIN alerts_df :
            alerts_df[i].alert_type = "VOLUME_DROP" =>
                LET vals == PriorVolumes(df, Key(alerts_df[i]), check_date)
                    obs  == ObservedAt(df, Key(alerts_df[i]), check_date)
                IN  /\ Sum(vals) > 0
                    /\ alerts_df[i].severity =
                         IF DropAtLeast(vals, obs, 70) THEN "CRITICAL"
                         ELSE IF DropAtLeast(vals, obs, 50) THEN "HIGH"
                         ELSE IF DropAtLeast(vals, obs, 30) THEN "MEDIUM"
                         ELSE "LOW"

\* C3 witness: an alert for a drop of exactly 70 percent, reported CRITICAL.
C3_Witness ==
    /\ Detected
    /\ \E i \in DOMAIN alerts_df :
          /\ alerts_df[i].alert_type = "VOLUME_DROP"
          /\ Eq(alerts_df[i].drop_from_mean_pct, Num(70))
          /\ alerts_df[i].severity = "CRITICAL"

\* C4: a category with fewer than min_weeks observations before the check date
\* gets no alert of any type; and, in a run that reaches the loop over the
\* categories, a category is skipped exactly when it has fewer than min_weeks
\* prior observations.
C4_InsufficientHistorySkipped ==
    Detected =>
        \A key \in Keys(df) :
            /\ ~Qualified(df, key, check_date, sensitivity)
                 => AlertsFor(alerts_df, key) = {}
            /\ outcomes # <<>> =>
                 (~Qualified(df, key, check_date, sensitivity)
                  <=> BranchOf(key) \subseteq {"skip_group", "skip_history"})

\* C4 witness: a category that passes the test on the length of its whole group,
\* reports at the check date and is skipped for its short prior history.
C4_Witness ==
    /\ Detected
    /\ \E key \in Keys(df) :
          /\ ReportsAt(df, key, check_date)
          /\ Cardinality({i \in DOMAIN df : Key(df[i]) = key}) >= MinWeeks(sensitivity)
          /\ ~Qualified(df, key, check_date, sensitivity)
          /\ BranchOf(key) = {"skip_history"}
          /\ AlertsFor(alerts_df, key) = {}

Ended == pc \in {"exited", "crashed"}

C9_AllFilesOrNone ==
    Ended => \/ \A f \in OutputFiles : files[f] = "written"
             \/ \A f \in OutputFiles : files[f] = "absent"

-----------------------------------------------------------------------------
(* Properties of two runs and of the analysis script (SpecCompare)         *)

BothRun == pc \in {"second_done", "thresholds_done", "analysis_done"}

\* The rows of a category, as (week, volume) pairs.
Observations(d, key) ==
    {<<d[i].week_start_date, d[i].volume>> : i \in {j \in DOMAIN d : Key(d[j]) = key}}

PriorObservations(d, key, cd) == {o \in Observations(d, key) : o[1] < cd}

\* Every alert of a monitoring run carries the threshold and the mean of the
\* counts its category reported strictly before the checked week.
MonitorAlertsFromPrior(alerts, d) ==
    \A i \in DOMAIN alerts :
        LET info == calculate_dynamic_threshold(
                        PriorVolumes(d, Key(alerts[i]), alerts[i].week_start_date),
                        sensitivity)
        IN  /\ Eq(alerts[i].threshold, info.threshold)
            /\ Eq(alerts[i].mean_volume, info.mean)

\* The same for the alerts of the analysis script.
AnalysisAlertsFromPrior(alerts, d) ==
    \A i \in DOMAIN alerts :
        LET info == calculate_thresholds(
                        PriorVolumes(d, Key(alerts[i]), alerts[i].week_start_date),
                        CURRENT_SENSITIVITY)
        IN  /\ Eq(alerts[i].threshold, info.final_threshold)
            /\ Eq(alerts[i].mean_volume, info.mean)

\* A category alerted in both runs, on tables that agree on its observations
\* before the check date, has the same threshold and mean in both.
SameThresholdInBothRuns ==
    \A key \in Keys(df) \cap Keys(df_alt) :
        PriorObservations(df, key, check_date) = PriorObservations(df_alt, key, check_date)
        => \A i \in AlertsFor(alerts_df, key), j \in AlertsFor(alerts_alt, key) :
              /\ Eq(alerts_df[i].threshold, alerts_alt[j].threshold)
              /\ Eq(alerts_df[i].mean_volume, alerts_alt[j].mean_volume)

\* C5 (as amended): the threshold and the mean of every alert of
\* detect_weekly_alerts are those of the category's observations dated strictly
\* before the check date; an observation at or after the check date that is
\* changed, added or removed leaves them as they are.
C5_MonitorThresholdFromPriorOnly ==
    BothRun => /\ MonitorAlertsFromPrior(alerts_df, df)
               /\ MonitorAlertsFromPrior(alerts_alt, df_alt)
               /\ SameThresholdInBothRuns

\* C5 (as claimed): the same of every alert, those of volume_analysis.py
\* detect_alerts included.
C5_EveryThresholdFromPriorOnly ==
    /\ C5_MonitorThresholdFromPriorOnly
    /\ pc = "analysis_done" => AnalysisAlertsFromPrior(analysis_alerts, df)

\* C5 witness: a category alerted in both runs whose tables agree before the
\* check date and differ at or after it.
C5_Witness ==
    /\ BothRun
    /\ \E key \in Keys(df) \cap Keys(df_alt) :
          /\ PriorObservations(df, key, check_date)
               = PriorObservations(df_alt, key, check_date)
          /\ Observations(df, key) # Observations(df_alt, key)
          /\ AlertsFor(alerts_df, key) # {}
          /\ AlertsFor(alerts_alt, key) # {}

AlertSet(alerts, key) == {alerts[i] : i \in AlertsFor(alerts, key)}

\* C6: two tables that agree on all observations of a category give, for the
\* same check date and sensitivity, the same alert or absence of alert for it,
\* whatever the other categories contain.
C6_NoCrossCategoryDependency ==
    BothRun =>
        \A key \in Keys(df) \cap Keys(df_alt) :
            Observations(df, key) = Observations(df_alt, key)
            => AlertSet(alerts_df, key) = AlertSet(alerts_alt, key)

-----------------------------------------------------------------------------
(* Properties of the threshold calculators (SpecThr)                       *)

\* mean - z*std of a sample, z = zn/zd
MeanMinusZStd(vals, zn, zd) == Surd(Sum(vals) * zd, zn, VarN2(vals), Len(vals) * zd)

\* x = max(0, y)
IsMaxWithZero(x, y) == Le(Num(0), x) /\ Le(y, x) /\ (Eq(x, Num(0)) \/ Eq(x, y))

\* Q1 - 1.5*(Q3 - Q1), in halves: (5*Q1 - 3*Q3)/2
IqrFloor(vals) ==
    LET q1 == Percentile(vals, 25)
        q3 == Percentile(vals, 75)
    IN  Rat(5 * q1.a * q3.d - 3 * q3.a * q1.d, 2 * q1.d * q3.d)

\* final = max(z, p, i), never negative
IsFinalOf(final, z, p, i) ==
    /\ Le(z, final) /\ Le(p, final) /\ Le(i, final)
    /\ Eq(final, z) \/ Eq(final, p) \/ Eq(final, i)
    /\ Le(Num(0), final)

\* What the claim says of one calculator's result, for the z it is to use.
ThresholdContract(final, z, p, i, vals, zn, zd, q) ==
    /\ IsFinalOf(final, z, p, i)
    /\ IsMaxWithZero(z, MeanMinusZStd(vals, zn, zd))
    /\ IsMaxWithZero(i, IqrFloor(vals))
    /\ Eq(p, Percentile(vals, q))

MonitorContract(t) ==
    LET c == SENSITIVITY_CONFIGS[sensitivity]
    IN  ThresholdContract(t.threshold, t.methods.z_score, t.methods.percentile,
                          t.methods.iqr, volumes, c.z_num, c.z_den, c.percentile)

AnalysisContract(t) ==
    LET c == SENSITIVITY_LEVELS[sensitivity]
    IN  ThresholdContract(t.final_threshold, t.z_score_threshold,
                          t.percentile_threshold, t.iqr_threshold, volumes,
                          c.z_num, c.z_den, c.percentile)

\* The pattern-aware result against the z of the sensitivity level.
PatternContractPlainZ(t) ==
    LET c == SENSITIVITY_LEVELS[sensitivity]
    IN  ThresholdContract(t.threshold, t.z_threshold, t.percentile_threshold,
                          t.iqr_threshold, volumes, c.z_num, c.z_den, c.percentile)

\* The pattern-aware result against z * (1 + (1 - regularity) * 0.5).
PatternContractAdjustedZ(t) ==
    LET c == SENSITIVITY_LEVELS[sensitivity]
        zn == c.z_num * (3 * regularity.d - regularity.a)
        zd == c.z_den * 2 * regularity.d
    IN  ThresholdContract(t.threshold, t.z_threshold, t.percentile_threshold,
                          t.iqr_threshold, volumes, zn, zd, c.percentile)

-----------------------------------------------------------------------------
(* Properties of the frequency detector (specification SpecFreq)           *)

\* The gaps, in days, of the analysed series taken in date order.
SeriesGaps == Gaps(Sorted(dates))

\* Total and count of the gaps: avg_gap = GapTotal / GapCount.
GapTotal == Sum(SeriesGaps)
GapCount == Len(SeriesGaps)

\* avg_gap <= days, on the integers
GapAtMost(days) == GapTotal <= days * GapCount

\* regularity > num/den: the gaps' standard deviation is below (1 - num/den)
\* of their mean, that is den^2 * variance < (den - num)^2 * mean^2.
RegularityAbove(num, den) ==
    /\ GapTotal > 0
    /\ den * den * VarN2(SeriesGaps) < (den - num) * (den - num) * GapTotal * GapTotal

\* regularity < num/den
RegularityBelow(num, den) ==
    \/ GapTotal = 0
    \/ den * den * VarN2(SeriesGaps) > (den - num) * (den - num) * GapTotal * GapTotal

\* num/den of the regularity 1 - std/mean (0 when std >= mean or mean = 0)
RegularityTimes(num, den) ==
    IF RegularityAbove(0, 1)
    THEN Surd(num * GapTotal, num, VarN2(SeriesGaps), den * GapTotal)
    ELSE Num(0)

\* The series has at least 2 observations and the override does not apply.
TableApplies ==
    /\ pc = "analyzed"
    /\ Len(dates) >= 2
    /\ ~(RegularityBelow(3, 10) /\ GapCount > 3)

Returns(frequency, num, den) ==
    /\ pattern.frequency = frequency
    /\ Eq(pattern.confidence, RegularityTimes(num, den))

\* The category and confidence are those of the table.
ByTable ==
    IF GapAtMost(10) /\ RegularityAbove(1, 2) THEN Returns("daily", 1, 1)
    ELSE IF ~GapAtMost(10) /\ GapAtMost(21) /\ RegularityAbove(2, 5)
    THEN Returns("weekly", 1, 1)
    ELSE IF ~GapAtMost(21) /\ GapAtMost(45)
    THEN Returns(IF RegularityAbove(2, 5) THEN "biweekly" ELSE "monthly", 1, 1)
    ELSE IF ~GapAtMost(45) /\ GapAtMost(120)
    THEN Returns(IF RegularityAbove(1, 2) THEN "monthly" ELSE "quarterly", 8, 10)
    ELSE IF ~GapAtMost(120) /\ GapAtMost(270)
    THEN Returns(IF RegularityAbove(1, 2) THEN "quarterly" ELSE "semi_annual", 7, 10)
    ELSE Returns(IF RegularityAbove(3, 10) THEN "semi_annual" ELSE "irregular", 5, 10)

IsSentinel(frequency, confidence, avg_gap, regularity_score) ==
    /\ frequency = (IF Len(dates) = 0 THEN "insufficient_data" ELSE "single_occurrence")
    /\ Eq(confidence, Num(0))
    /\ Eq(avg_gap, Num(0))
    /\ Eq(regularity_score, Num(0))

\* C11: a series of fewer than 2 observations is answered, without an error,
\* by confidence 0, average gap 0, regularity 0 and the category
\* insufficient_data for no observation, single_occurrence for exactly one.
C11_DegenerateSeriesSentinel ==
    Len(dates) < 2 =>
        /\ pc = "analyzed" =>
              IsSentinel(pattern.frequency, pattern.confidence, pattern.avg_gap,
                         pattern.regularity_score)
        /\ pc = "detected_frequency" =>
              /\ result.raised = "none"
              /\ IsSentinel(result.frequency_category, result.confidence,
                            result.avg_gap_days, result.regularity_score)

\* 1 - regularity: std/mean of the gaps, at most 1, and 1 when the mean is 0
Irregularity ==
    IF RegularityAbove(0, 1)
    THEN Surd(0, -1, VarN2(SeriesGaps), GapTotal)
    ELSE Num(1)

\* C12: with more than 3 gaps and a regularity below 0.3 the category is
\* irregular and the confidence 1 - regularity, whatever the average gap;
\* with 3 or fewer gaps, or a regularity of 0.3 or more, the category and
\* confidence are those of the table.
C12_IrregularOverride ==
    (pc = "analyzed" /\ Len(dates) >= 2) =>
        IF GapCount > 3 /\ RegularityBelow(3, 10)
        THEN /\ pattern.frequency = "irregular"
             /\ Eq(pattern.confidence, Irregularity)
        ELSE ByTable

\* C12 witness: four gaps averaging between 21 and 45 days, too uneven for
\* regularity 0.3, have been analysed and answered irregular.
C12_Witness ==
    /\ pc = "analyzed"
    /\ GapCount = 4
    /\ RegularityBelow(3, 10)
    /\ ~GapAtMost(21) /\ GapAtMost(45)
    /\ pattern.frequency = "irregular"
    /\ Lt(Rat(7, 10), pattern.confidence)

\* The gaps of the series are all the same positive number of days, at
\* least 4 of them.
EvenlySpaced ==
    /\ GapCount >= 4
    /\ SeriesGaps[1] > 0
    /\ \A i \in 1..GapCount : SeriesGaps[i] = SeriesGaps[1]

\* C13: a series whose gaps are all the same positive number of days g, at
\* least 4 of them, has regularity 1 and average gap g, in whatever order the
\* dates are handed over.
C13_EvenSpacingIsFullyRegular ==
    (pc = "analyzed" /\ EvenlySpaced) =>
        /\ Eq(pattern.regularity_score, Num(1))
        /\ Eq(pattern.avg_gap, Num(SeriesGaps[1]))

\* C13 witness: an evenly spaced series handed over neither earliest first
\* nor latest first has been analysed.
C13_Witness ==
    /\ pc = "analyzed"
    /\ EvenlySpaced
    /\ dates # Sorted(dates)
    /\ dates # Reverse(Sorted(dates))
    /\ Eq(pattern.regularity_score, Num(1))

\* The call that has returned: the tuple of analyze_occurrence_pattern, or
\* the dict of detect_frequency_advanced.
Answered == pc \in {"analyzed", "detected_frequency"}
AnsweredFrequency ==
    IF pc = "analyzed" THEN pattern.frequency ELSE result.frequency_category
AnsweredConfidence ==
    IF pc = "analyzed" THEN pattern.confidence ELSE result.confidence
AnsweredRegularity ==
    IF pc = "analyzed" THEN pattern.regularity_score ELSE result.regularity_score

\* C14: 13 observations exactly 28 days apart are classified monthly with
\* confidence 1.
C14_FourWeeklySeriesIsMonthly ==
    (Answered /\ Sorted(dates) = monthly_dates) =>
        /\ AnsweredFrequency = "monthly"
        /\ Eq(AnsweredConfidence, Num(1))

\* C15: the 7 observations at week offsets 0, 2, 8, 10, 30, 45, 50 (gaps of
\* 14, 42, 14, 140, 105, 35 days) have a regularity below 0.3 and are
\* classified irregular with confidence 1 - regularity.
C15_IrregularScenario ==
    (Answered /\ Sorted(dates) = irregular_dates) =>
        /\ SeriesGaps = <<14, 42, 14, 140, 105, 35>>
        /\ Lt(AnsweredRegularity, Rat(3, 10))
        /\ Eq(AnsweredRegularity, RegularityTimes(1, 1))
        /\ AnsweredFrequency = "irregular"
        /\ Eq(AnsweredConfidence, Irregularity)

\* C15 witness: the series, handed over latest first, has been analysed and
\* answered irregular with a confidence above 0.8.
C15_Witness ==
    /\ pc = "analyzed"
    /\ dates = Reverse(irregular_dates)
    /\ pattern.frequency = "irregular"
    /\ Lt(Rat(8, 10), pattern.confidence)

AnsweredAvgGap ==
    IF pc = "analyzed" THEN pattern.avg_gap ELSE result.avg_gap_days

InUnitInterval(x) == Le(Num(0), x) /\ Le(x, Num(1))

-----------------------------------------------------------------------------
(* The worked example of a monitoring run (specification Spec)             *)

\* The prior counts of the category number 8, with mean 1000 and standard
\* deviation 100: sum 8000 and 8 * sum of squares - sum^2 = 64 * 100^2.
HistoryOfScenario(key) ==
    LET vals == PriorVolumes(df, key, check_date)
    IN  /\ Len(vals) = 8
        /\ Sum(vals) = 8 * 1000
        /\ 8 * SumSq(vals) - Sum(vals) * Sum(vals) = 64 * 100 * 100

\* C16: a category with 8 prior weekly observations of mean 1000 and standard
\* deviation 100, checked at medium sensitivity, with 700 observed in the
\* checked week, gets a VOLUME_DROP alert with drop_pct 30 and severity MEDIUM.
C16_ScenarioDropIsMedium ==
    (Detected /\ sensitivity = "medium") =>
        \A key \in Keys(df) :
            (HistoryOfScenario(key) /\ ReportsAt(df, key, check_date)
             /\ ObservedAt(df, key, check_date) = 700)
            => /\ Cardinality(AlertsFor(alerts_df, key)) = 1
               /\ \A i \in AlertsFor(alerts_df, key) :
                    /\ alerts_df[i].alert_type = "VOLUME_DROP"
                    /\ alerts_df[i].current_volume = 700
                    /\ Eq(alerts_df[i].mean_volume, Num(1000))
                    /\ Eq(alerts_df[i].drop_from_mean_pct, Num(30))
                    /\ alerts_df[i].severity = "MEDIUM"

\* C16 witness: the run on such a history, with its rows latest first and 700
\* observed, has raised its alert while the z-score estimator stands at 800.
C16_Witness ==
    /\ Detected
    /\ sensitivity = "medium"
    /\ HistoryOfScenario(FocusKey)
    /\ df[1].week_start_date = check_date
    /\ ObservedAt(df, FocusKey, check_date) = 700
    /\ \E i \in DOMAIN alerts_df : alerts_df[i].severity = "MEDIUM"
    /\ Eq(calculate_dynamic_threshold(PriorVolumes(df, FocusKey, check_date),
                                      "medium").methods.z_score, Num(800))

-----------------------------------------------------------------------------
(* The pattern-aware threshold for two regularity scores (SpecThr)         *)

\* z * (1 + (1 - r) * 0.5) = z * (3 - r) / 2, for the z of the sensitivity level
AdjustedZOf(r) ==
    LET c == SENSITIVITY_LEVELS[sensitivity]
    IN  Rat(c.z_num * (3 * r.d - r.a), c.z_den * 2 * r.d)

\* Of two results for the same sample, the one of the lower regularity has
\* the higher-or-equal adjusted z and the lower-or-equal z_threshold.
MoreLenient(lower, higher) ==
    Le(lower.regularity_score, higher.regularity_score) =>
        /\ Le(higher.adjusted_z_score, lower.adjusted_z_score)
        /\ Le(lower.z_threshold, higher.z_threshold)

\* C17: for a fixed sample and sensitivity, and regularity scores r1 <= r2 in
\* [0, 1], adjusted_z(r1) = z*(1+(1-r1)*0.5) >= adjusted_z(r2) and
\* z_threshold(r1) <= z_threshold(r2); adjusted_z is z at regularity 1.
C17_LowerRegularityMoreLenient ==
    pc = "pattern_next_done" =>
        /\ MoreLenient(thresholds[3], thresholds[4])
        /\ MoreLenient(thresholds[4], thresholds[3])
        /\ \A i \in {3, 4} :
             /\ Eq(thresholds[i].adjusted_z_score, AdjustedZOf(thresholds[i].regularity_score))
             /\ Eq(thresholds[i].regularity_score, Num(1)) =>
                  Eq(thresholds[i].adjusted_z_score, AdjustedZOf(Num(1)))
        /\ Eq(AdjustedZOf(Num(1)),
              Rat(SENSITIVITY_LEVELS[sensitivity].z_num, SENSITIVITY_LEVELS[sensitivity].z_den))

\* C17 witness: the same sample with two different regularity scores, the
\* z_threshold of the lower one strictly lower and that of the higher positive.
C17_Witness ==
    /\ pc = "pattern_next_done"
    /\ Lt(thresholds[4].regularity_score, thresholds[3].regularity_score)
    /\ Lt(thresholds[3].adjusted_z_score, thresholds[4].adjusted_z_score)
    /\ Lt(thresholds[4].z_threshold, thresholds[3].z_threshold)
    /\ Lt(Num(0), thresholds[4].z_threshold)

-----------------------------------------------------------------------------
(* Properties of the trend analysis (specification SpecTrend)              *)

\* C19: a window of at least 2 points is stable when |growth_rate_pct| < 5,
\* and otherwise increasing when the growth rate is positive and decreasing
\* when it is negative; a growth rate of exactly +5 is increasing.
C19_DirectionByGrowthRate ==
    pc = "trends_done" =>
        \A name \in DOMAIN trends :
            trends[name].data_points >= 2 =>
                LET g == trends[name].growth_rate_pct
                IN  trends[name].trend_direction =
                        IF Lt(Num(-5), g) /\ Lt(g, Num(5)) THEN "stable"
                        ELSE IF Lt(Num(0), g) THEN "increasing"
                        ELSE "decreasing"

\* The date the windows end at.
ReferenceOf == IF reference_date = <<>> THEN LatestDate(group_df) ELSE reference_date[1]

\* The rows of the group dated in (ReferenceOf - 7 * weeks, ReferenceOf].
InWindow(weeks) ==
    {i \in DOMAIN group_df :
        /\ ReferenceOf - 7 * weeks < group_df[i].week_start_date
        /\ group_df[i].week_start_date <= ReferenceOf}

\* The counts of the rows I, earliest first.
RECURSIVE CountsByDate(_)
CountsByDate(I) ==
    IF I = {} THEN <<>>
    ELSE LET i == CHOOSE j \in I :
                    \A o \in I : group_df[j].week_start_date <= group_df[o].week_start_date
         IN  <<group_df[i].volume>> \o CountsByDate(I \ {i})

\* The named window holds the metrics of the observations of its last weeks.
WindowIs(name, weeks) ==
    /\ name \in DOMAIN trends
    /\ trends[name].data_points = Cardinality(InWindow(weeks))
    /\ trends[name] = calculate_trend_metrics(CountsByDate(InWindow(weeks)))

\* C20: exactly one metrics record for each of the seven windows, each
\* computed over the observations with reference_date - window_weeks < date
\* <= reference_date in ascending date order, the reference date defaulting
\* to the latest observation date.
C20_SevenWindowsOverHalfOpenRanges ==
    pc = "trends_done" =>
        /\ DOMAIN trends = {"2_weeks", "1_month", "3_months", "6_months",
                            "9_months", "12_months", "18_months"}
        /\ WindowIs("2_weeks", 2)
        /\ WindowIs("1_month", 4)
        /\ WindowIs("3_months", 13)
        /\ WindowIs("6_months", 26)
        /\ WindowIs("9_months", 39)
        /\ WindowIs("12_months", 52)
        /\ WindowIs("18_months", 78)

\* C20 witness: a group handed over latest first, no reference date given,
\* with an observation exactly 2 weeks and one exactly 78 weeks before the
\* latest: the 2-week window holds 2 points of different counts and the
\* 18-month window leaves out the oldest row.
C20_Witness ==
    /\ pc = "trends_done"
    /\ reference_date = <<>>
    /\ group_df[1].week_start_date = LatestDate(group_df)
    /\ \E i \in DOMAIN group_df : group_df[i].week_start_date = LatestDate(group_df) - 14
    /\ \E i \in DOMAIN group_df : group_df[i].week_start_date = LatestDate(group_df) - 7 * 78
    /\ trends["2_weeks"].data_points = 2
    /\ ~Eq(trends["2_weeks"].growth_rate_pct, Num(0))
    /\ trends["18_months"].data_points = Len(group_df) - 1

\* The numeric fields of a window's metrics.
NumericFields ==
    {"avg_volume", "total_volume", "min_volume", "max_volume", "median_volume",
     "volatility", "slope", "growth_rate_pct", "data_points"}

\* The value of a field is 0, whether it is held as an integer or as a ratio.
IsZero(x) == IF x \in Int THEN x = 0 ELSE Eq(x, Num(0))

\* C21: a window whose selection is empty has trend_direction no_data and
\* every numeric field (avg, total, min, max, median, volatility, slope,
\* growth_rate_pct, sample size) present and equal to 0.
C21_EmptyWindowAllNumericFieldsZero ==
    pc = "trends_done" =>
        \A name \in DOMAIN trends :
            Cardinality(InWindow(windows[name])) = 0 =>
                /\ trends[name].trend_direction = "no_data"
                /\ NumericFields \subseteq DOMAIN trends[name]
                /\ \A f \in NumericFields : IsZero(trends[name][f])

\* The n points of a window, n >= 2, have the growth rate
\* (second - first) / first * 100, first and second being the means of the
\* points [0, n \div 2) and [n \div 2, n) when n >= 4 and the first and the
\* last point when n < 4, and 0 when first is 0.
GrowthIs(g, points) ==
    LET n  == Len(points)
        h  == n \div 2
        s1 == IF n >= 4 THEN Sum(SubSeq(points, 1, h)) ELSE points[1]
        n1 == IF n >= 4 THEN h ELSE 1
        s2 == IF n >= 4 THEN Sum(SubSeq(points, h + 1, n)) ELSE points[n]
        n2 == IF n >= 4 THEN n - h ELSE 1
    IN  IF s1 = 0 THEN Eq(g, Num(0))
        ELSE Eq(g, Rat(100 * (s2 * n1 - s1 * n2), s1 * n2))

\* C22: the growth rate of a window of n >= 2 points compares the means of
\* its two halves split at n \div 2 (its first and last point when n < 4)
\* and is 0 when the first of them is 0; a window of exactly 1 point has
\* slope 0, growth rate 0 and trend_direction insufficient_data.
C22_GrowthRateByHalves ==
    pc = "trends_done" =>
        \A name \in DOMAIN trends :
            LET points == CountsByDate(InWindow(windows[name]))
            IN  /\ Len(points) >= 2 => GrowthIs(trends[name].growth_rate_pct, points)
                /\ Len(points) = 1 =>
                     /\ Eq(trends[name].slope, Num(0))
                     /\ Eq(trends[name].growth_rate_pct, Num(0))
                     /\ trends[name].trend_direction = "insufficient_data"

\* C22 witness: one group whose windows hold 1, 3, 4 and 5 points; the
\* 5-point window splits 2 / 3 and its growth rate differs from that of its
\* first and last point.
C22_Witness ==
    /\ pc = "trends_done"
    /\ \E name \in DOMAIN trends :
          /\ trends[name].data_points = 1
          /\ trends[name].trend_direction = "insufficient_data"
    /\ \E name \in DOMAIN trends : trends[name].data_points = 3
    /\ \E name \in DOMAIN trends : trends[name].data_points = 4
    /\ \E name \in DOMAIN trends :
          LET points == CountsByDate(InWindow(windows[name]))
          IN  /\ Len(points) = 5
              /\ points[1] > 0
              /\ ~Eq(trends[name].growth_rate_pct, Num(0))
              /\ ~Eq(trends[name].growth_rate_pct,
                     Rat(100 * (points[5] - points[1]), points[1]))

\* The counts of the whole group, earliest first.
SeriesByDate == CountsByDate(DOMAIN group_df)

\* C23: the comparison is insufficient_data exactly when the series has
\* fewer than recent_weeks + 4 points; otherwise change_pct compares the mean
\* of the last recent_weeks points of the date-sorted series with the mean of
\* all earlier points (0 when that mean is 0), and the status is normal for
\* |change_pct| < 10, increasing above 10, decreasing below -10 and normal
\* at exactly +10 or -10.
C23_RecentAgainstHistorical ==
    pc = "compared" =>
        LET n  == Len(group_df)
            sr == Sum(SubSeq(SeriesByDate, n - recent_weeks + 1, n))
            sh == Sum(SubSeq(SeriesByDate, 1, n - recent_weeks))
            nh == n - recent_weeks
            c  == comparison.change_pct
        IN  /\ comparison.status = "insufficient_data" <=> n < recent_weeks + 4
            /\ n >= recent_weeks + 4 =>
                 /\ Eq(comparison.recent_avg, Rat(sr, recent_weeks))
                 /\ Eq(comparison.historical_avg, Rat(sh, nh))
                 /\ IF sh = 0 THEN Eq(c, Num(0))
                    ELSE Eq(c, Rat(100 * (sr * nh - sh * recent_weeks), sh * recent_weeks))
                 /\ comparison.status =
                        IF Lt(Num(10), c) THEN "increasing"
                        ELSE IF Lt(c, Num(-10)) THEN "decreasing"
                        ELSE "normal"

\* C23 witness: a group of 10 rows handed over latest first, compared over
\* its last 4 weeks, whose change is exactly +10 and reported normal.
C23_Witness ==
    /\ pc = "compared"
    /\ recent_weeks = 4
    /\ Len(group_df) = 10
    /\ group_df[1].week_start_date = LatestDate(group_df)
    /\ Eq(comparison.change_pct, Num(10))
    /\ Eq(comparison.historical_avg, Num(group_df[10].volume))
    /\ ~Eq(comparison.recent_avg, comparison.historical_avg)
    /\ comparison.status = "normal"

-----------------------------------------------------------------------------
(* Properties of a run on an unvalidated table (SpecUnvalidated)           *)

\* A number that is neither nan nor infinite.
Finite(x) == x.d # 0

\* C24: the drop percentage of an alert raised against a historical mean of
\* 0 is 0, and no alert carries an undefined, infinite or nan drop percentage.
C24_DropPctGuarded ==
    pc # "start" =>
        \A i \in DOMAIN alerts_df :
            /\ Finite(alerts_df[i].drop_from_mean_pct)
            /\ (alerts_df[i].alert_type = "VOLUME_DROP"
                /\ Eq(alerts_df[i].mean_volume, Num(0))) =>
                    Eq(alerts_df[i].drop_from_mean_pct, Num(0))

\* With counts that are not negative no alert is raised against a mean of 0
\* and every drop percentage is finite.
DropPctFiniteOnCounts ==
    pc # "start" =>
        \A i \in DOMAIN alerts_df :
            /\ Finite(alerts_df[i].drop_from_mean_pct)
            /\ alerts_df[i].alert_type = "VOLUME_DROP" =>
                 Lt(Num(0), alerts_df[i].mean_volume)

-----------------------------------------------------------------------------
(* Properties of an analysis run (specification SpecRun)                   *)

\* The counts of a category, earliest first (the table is sorted).
RunCounts(key) == VolumeColumn(Group(df, key))

\* The dates of a category.
RunDates(key) == DateColumn(Group(df, key))

\* The counts of a category within the given weeks of its latest observation.
RunPoints(key, weeks) ==
    LET group == Group(df, key)
        InRange(r) == r.week_start_date > LatestDate(group) - 7 * weeks
    IN  VolumeColumn(SelectSeq(group, InRange))

\* The sum of the first part of the points a growth rate starts from.
FirstPart(points) ==
    IF Len(points) >= 4 THEN Sum(SubSeq(points, 1, Len(points) \div 2)) ELSE points[1]

\* The counts before the last RecentWeeksOfRun ones.
EarlierCounts(key) ==
    SubSeq(RunCounts(key), 1, Len(RunCounts(key)) - RecentWeeksOfRun)

\* C25: a zero denominator yields the documented substitute: the coefficient
\* of variation of volume is 0 when the mean is 0, the volatility is 0 when
\* the average is 0, the growth rate is 0 when the first-half average is 0,
\* change_pct is 0 when the historical average is 0, and cv_gap is 1.0 (a
\* regularity score of 0) when avg_gap is 0; none of these is undefined.
C25_ZeroDenominatorSubstitutes ==
    /\ \A i \in DOMAIN freq_df :
          LET key == <<freq_df[i].app, freq_df[i].message_type>>
          IN  /\ Finite(freq_df[i].cv_volume)
              /\ Finite(freq_df[i].regularity_score)
              /\ Sum(RunCounts(key)) = 0 => Eq(freq_df[i].cv_volume, Num(0))
              /\ (Len(RunDates(key)) >= 2
                  /\ \A j \in DOMAIN RunDates(key) : RunDates(key)[j] = RunDates(key)[1])
                    => Eq(freq_df[i].regularity_score, Num(0))
    /\ \A i \in DOMAIN trend_results :
          LET key == <<trend_results[i].app, trend_results[i].message_type>>
              cmp == trend_results[i].recent_vs_historical
          IN  /\ Finite(cmp.change_pct)
              /\ (cmp.status # "insufficient_data" /\ Sum(EarlierCounts(key)) = 0)
                    => Eq(cmp.change_pct, Num(0))
              /\ \A name \in DOMAIN windows :
                    LET metrics == trend_results[i].trends[name]
                        points  == RunPoints(key, windows[name])
                    IN  /\ Finite(metrics.volatility)
                        /\ Finite(metrics.growth_rate_pct)
                        /\ Sum(points) = 0 => Eq(metrics.volatility, Num(0))
                        /\ (Len(points) >= 2 /\ FirstPart(points) = 0)
                              => Eq(metrics.growth_rate_pct, Num(0))

\* C25 witness: a run over three categories: one of zero counts only (mean
\* 0: cv_volume 0, volatility 0), one whose counts rise from 0 (first half of
\* a window and historical average 0 against a positive second half and
\* recent average: growth rate 0, change_pct 0), one with two observations
\* on one date (avg_gap 0: regularity score 0).
C25_Witness ==
    /\ pc = "run_saved"
    /\ \E i \in DOMAIN freq_df :
          /\ Eq(freq_df[i].avg_volume, Num(0))
          /\ Eq(freq_df[i].cv_volume, Num(0))
    /\ \E i \in DOMAIN freq_df :
          /\ freq_df[i].total_occurrences = 2
          /\ Eq(freq_df[i].avg_gap_days, Num(0))
          /\ Eq(freq_df[i].regularity_score, Num(0))
    /\ \E i \in DOMAIN trend_results :
          /\ Eq(trend_results[i].trends["2_weeks"].avg_volume, Num(0))
          /\ Eq(trend_results[i].trends["2_weeks"].volatility, Num(0))
    /\ \E i \in DOMAIN trend_results :
          LET cmp == trend_results[i].recent_vs_historical
              m   == trend_results[i].trends["1_month"]
          IN  /\ Eq(cmp.historical_avg, Num(0))
              /\ Lt(Num(0), cmp.recent_avg)
              /\ Eq(cmp.change_pct, Num(0))
              /\ m.data_points = 4
              /\ Lt(Num(0), m.avg_volume)
              /\ Eq(m.growth_rate_pct, Num(0))

\* The rows of the trend table for a category and a window.
TrendRowsOf(key, name) ==
    {i \in DOMAIN trend_summary :
        /\ <<trend_summary[i].app, trend_summary[i].message_type>> = key
        /\ trend_summary[i].window = name}

\* Category k1 comes before k2 by average volume: a higher average, or the
\* same average and the earlier key.
RanksBefore(k1, k2) ==
    LET s1 == Sum(RunCounts(k1)) * Len(RunCounts(k2))
        s2 == Sum(RunCounts(k2)) * Len(RunCounts(k1))
    IN  s1 > s2 \/ (s1 = s2 /\ KeyLess(k1, k2))

\* The categories with fewer than TopCombinations categories before them.
TopCategories ==
    {k \in Keys(df) :
        Cardinality({o \in Keys(df) : RanksBefore(o, k)}) < TopCombinations}

\* C26 as stated: the trend table of a run holds exactly one row for every
\* pair (category, window), every category of the input appearing with all
\* seven windows.
C26_TrendTableCoversEveryCategory ==
    pc = "run_saved" =>
        \A key \in Keys(df) : \A name \in DOMAIN windows :
            Cardinality(TrendRowsOf(key, name)) = 1

\* C26 amended: the trend table of a run that completes holds exactly one
\* row, with the metrics of that window, for every pair (category, window)
\* of the at most 10 categories of highest average volume (the earlier key
\* first among equal averages), and no row for any other category; a run in
\* which no category has min_weeks observations ends without a trend table.
C26_TrendTableCoversTopCategories ==
    /\ pc = "run_saved" =>
          LET top == TopCategories
          IN  /\ Len(trend_summary) = 7 * Cardinality(top)
              /\ \A key \in top : \A name \in DOMAIN windows :
                    /\ Cardinality(TrendRowsOf(key, name)) = 1
                    /\ \A i \in TrendRowsOf(key, name) :
                          trend_summary[i].data_points
                              = Len(RunPoints(key, windows[name]))
              /\ \A i \in DOMAIN trend_summary :
                    <<trend_summary[i].app, trend_summary[i].message_type>> \in top
    /\ pc = "run_crashed" =>
          /\ trend_summary = <<>>
          /\ \A key \in Keys(df) :
                Len(RunCounts(key)) < SENSITIVITY_LEVELS[CURRENT_SENSITIVITY].min_weeks

\* C26 witness: a completed run over 11 categories whose trend table has 70
\* rows: the 10 categories of highest average volume with 7 windows each,
\* the last one, of the lowest average, left out while the one before it,
\* of a higher average, is in.
C26_Witness ==
    /\ pc = "run_saved"
    /\ Cardinality(Keys(df)) = 11
    /\ Len(trend_summary) = 70
    /\ TrendRowsOf(<<10, 1>>, "2_weeks") = {}
    /\ TrendRowsOf(<<11, 1>>, "2_weeks") # {}
    /\ Sum(RunCounts(<<11, 1>>)) > Sum(RunCounts(<<10, 1>>))

-----------------------------------------------------------------------------
(* Further properties of a monitoring run (specification Spec)             *)

\* The rows of a category dated before cd with fewer than n rows of the
\* category dated between them and cd: its n latest prior observations.
LatestPriorIdx(d, key, cd, n) ==
    {i \in PriorIdx(d, key, cd) :
        Cardinality({j \in PriorIdx(d, key, cd) :
                        d[j].week_start_date > d[i].week_start_date}) < n}

\* C27: the recent average of every VOLUME_DROP alert is the mean of the (up
\* to 4) latest-dated observations of its category strictly before the check
\* date, in whatever order the rows of the table appear.
C27_RecentAverageOfLatestFour ==
    Detected =>
        \A i \in DOMAIN alerts_df :
            alerts_df[i].alert_type = "VOLUME_DROP" =>
                LET latest == LatestPriorIdx(df, Key(alerts_df[i]), check_date, 4)
                IN  Eq(alerts_df[i].recent_4wk_avg,
                       Rat(Sum(SeqOfIdx(df, latest)), Cardinality(latest)))

\* The rows of the table run from the earliest to the latest date.
DatesAscending ==
    \A i, j \in DOMAIN df :
        (i < j /\ Key(df[i]) = Key(df[j])) => df[i].week_start_date < df[j].week_start_date

\* On a table whose rows are in date order the recent average is that of
\* the latest prior observations.
RecentAverageOnSortedTable == DatesAscending => C27_RecentAverageOfLatestFour

-----------------------------------------------------------------------------
(* Further properties of the frequency detector (specification SpecFreq)   *)

\* The gaps of the series are all the same number of days, between lo and hi.
ConstantGapWithin(lo, hi) ==
    /\ Len(dates) >= 2
    /\ \A i \in 1..GapCount : SeriesGaps[i] = SeriesGaps[1]
    /\ lo <= SeriesGaps[1] /\ SeriesGaps[1] <= hi

\* C28: a perfectly regular series with a constant gap of about 90 days (84
\* to 98 days, as 4 observations 13 weeks apart) is classified quarterly,
\* and one with a constant gap of about 30 days (28 to 31) monthly.
C28_CadenceNamedByGap ==
    Answered =>
        /\ ConstantGapWithin(84, 98) => AnsweredFrequency = "quarterly"
        /\ ConstantGapWithin(28, 31) => AnsweredFrequency = "monthly"

\* What the detector answers for these series: monthly for the 91-day gaps
\* of quarterly_dates, biweekly for the 28-day gaps of monthly_dates.
CadenceAnswered ==
    Answered =>
        /\ Sorted(dates) = quarterly_dates => AnsweredFrequency = "monthly"
        /\ Sorted(dates) = monthly_dates => AnsweredFrequency = "biweekly"

-----------------------------------------------------------------------------
(* Bounds of the threshold in a monitoring run (specification Spec)        *)

\* The threshold lies between the least and the largest count of the history.
WithinHistoryRange(threshold, vals) ==
    /\ Le(Num(SeqMin(vals)), threshold)
    /\ Le(threshold, Num(SeqMax(vals)))

VolumeDropAlertsFor(key) ==
    {i \in AlertsFor(alerts_df, key) : alerts_df[i].alert_type = "VOLUME_DROP"}

\* What holds of a category with a non-empty prior history vals, whether or
\* not its history is long enough to be checked.
ThresholdBoundsOf(key, vals) ==
    /\ \A sens \in Sensitivities :
          LET info == calculate_dynamic_threshold(vals, sens)
          IN  /\ WithinHistoryRange(info.threshold, vals)
              /\ Sum(vals) = 0 => Eq(info.threshold, Num(0))
    /\ \A i \in AlertsFor(alerts_df, key) :
          WithinHistoryRange(alerts_df[i].threshold, vals)
    /\ ReportsAt(df, key, check_date) =>
          /\ ObservedAt(df, key, check_date) >= SeqMax(vals)
                => VolumeDropAlertsFor(key) = {}
          /\ Sum(vals) = 0 => VolumeDropAlertsFor(key) = {}

\* C29 as stated: for every non-empty history of non-negative counts and
\* every sensitivity, min(history) <= final_threshold <= max(history); an
\* observation strictly below the historical minimum always raises a
\* VOLUME_DROP alert, one at or above the maximum never does, and a history
\* of zero counts has threshold 0 and never raises one.
C29_BelowMinimumAlwaysAlerts ==
    pc = "detected" =>
        \A key \in Keys(df) :
            LET vals == PriorVolumes(df, key, check_date)
            IN  vals # <<>> =>
                  /\ ThresholdBoundsOf(key, vals)
                  /\ (ReportsAt(df, key, check_date)
                      /\ ObservedAt(df, key, check_date) < SeqMin(vals))
                        => Cardinality(VolumeDropAlertsFor(key)) = 1

\* C29 amended: the same, an observation strictly below the historical
\* minimum raising a VOLUME_DROP alert whenever the history has at least
\* min_weeks observations (a shorter history is skipped without an alert).
C29_BelowMinimumAlertsWhenQualified ==
    pc = "detected" =>
        \A key \in Keys(df) :
            LET vals == PriorVolumes(df, key, check_date)
            IN  vals # <<>> =>
                  /\ ThresholdBoundsOf(key, vals)
                  /\ (ReportsAt(df, key, check_date)
                      /\ ObservedAt(df, key, check_date) < SeqMin(vals))
                        => IF Qualified(df, key, check_date, sensitivity)
                           THEN Cardinality(VolumeDropAlertsFor(key)) = 1
                           ELSE AlertsFor(alerts_df, key) = {}

\* C29 witness: a checked category with a qualifying history whose threshold
\* lies strictly between its least and largest count, alerted for a count
\* below the least.
C29_Witness ==
    /\ pc = "detected"
    /\ \E key \in Keys(df) :
          LET vals == PriorVolumes(df, key, check_date)
          IN  /\ Qualified(df, key, check_date, sensitivity)
              /\ ReportsAt(df, key, check_date)
              /\ ObservedAt(df, key, check_date) < SeqMin(vals)
              /\ \E i \in VolumeDropAlertsFor(key) :
                    /\ Lt(Num(SeqMin(vals)), alerts_df[i].threshold)
                    /\ Lt(alerts_df[i].threshold, Num(SeqMax(vals)))

\* C30: on a table with at most one observation per category and date, at
\* most one alert is emitted per category, never a NO_DATA and a VOLUME_DROP
\* alert for the same category, every alert carries the check date, and the
\* alerts are in ascending (app, message_type) order whatever the order of
\* the rows.
C30_OneAlertPerCategoryInKeyOrder ==
    Detected =>
        /\ \A key \in Keys(df) :
              /\ Cardinality(AlertsFor(alerts_df, key)) <= 1
              /\ Cardinality({alerts_df[i].alert_type : i \in AlertsFor(alerts_df, key)}) <= 1
        /\ \A i \in DOMAIN alerts_df :
              /\ alerts_df[i].week_start_date = check_date
              /\ Key(alerts_df[i]) \in Keys(df)
        /\ \A i, j \in DOMAIN alerts_df :
              i < j => KeyLess(Key(alerts_df[i]), Key(alerts_df[j]))

\* C30 witness: a table whose first row belongs to the category of the
\* larger key and whose dates run backwards; both categories are alerted,
\* one for a drop and one for missing data, the smaller key first.
C30_Witness ==
    /\ Detected
    /\ Len(alerts_df) = 2
    /\ Key(df[1]) = Key(alerts_df[2])
    /\ KeyLess(Key(alerts_df[1]), Key(alerts_df[2]))
    /\ df[1].week_start_date > df[2].week_start_date
    /\ {alerts_df[1].alert_type, alerts_df[2].alert_type} = {"NO_DATA", "VOLUME_DROP"}
    /\ \A i, j \in DOMAIN df :
          (i # j /\ Key(df[i]) = Key(df[j])) => df[i].week_start_date # df[j].week_start_date

=============================================================================
